---- MODULE Spec2Model ----
(***************************************************************************)
(* A model of the control plane of jayjayhust/owl: the GB28181 registrar   *)
(* (pkg/gbs/register.go), the catalog collector and the incremental        *)
(* channel merge (ipc.Adapter.SaveChannels), the SMS webhooks and the      *)
(* protocol adapters behind them, the ONVIF status checker, the recording  *)
(* retention worker and the media-server node manager.                     *)
(*                                                                         *)
(* Each subsystem has its own variables, its own Init/Next and its own     *)
(* specification; the variables of the other subsystems stay at their      *)
(* initial values under it.                                                *)
(***************************************************************************)
EXTENDS Integers, Sequences, FiniteSets, TLC

VARIABLES
    \* ---- GB28181 registrar --------------------------------------------
    devices,      \* persistent device rows, keyed by device_id (NoRow = none)
    cache,        \* ipccache: in-memory gbs.Device entries (NoEntry = none)
    cfgPassword,  \* conf.SIP.Password
    regNow,       \* wall clock of the registrar, seconds
    issued,       \* history: nonce -> time of the last 401 challenge carrying it
    req,          \* history: the last REGISTER handled
    trace,        \* history: what the handler sent for req, in order
    regAct,       \* history: the last registrar step
    \* ---- SMS webhooks (on_publish, on_stream_changed, on_play) --------
    chans,        \* channel rows, keyed by stream (NoChannel = none)
    pubNow,       \* wall clock of the webhook handlers
    pubReq,       \* history: the last webhook input
    pubResp,      \* history: the reply to pubReq
    pubAct,       \* history: the last webhook step
    \* ---- GB28181 catalog: collector, emission callback, channel merge --
    bucket,       \* per device: the collector's partial channel list
    timer,        \* per device: ticks left to quiescence (Idle = no bucket)
    memChannels,  \* per device: channel ids of the in-memory device (NotLoaded = none)
    chanRows,     \* the channel table, in insertion order
    devRows,      \* per device: the device row's channel count (NoRow = none)
    chunksLeft,   \* chunks the devices may still send
    faultsLeft,   \* store operations that may still fail
    chunkAge,     \* history, per device: ticks since its last chunk
    cycleIds,     \* history, per device: ids submitted since the last emission
    cycleChunks,  \* history, per device: chunks submitted since the last emission
    opened,       \* history, per device: chunks that did not follow one within the window
    emitCount,    \* history, per device: emissions so far
    lastEmit,     \* history: the last emission
    catAct,       \* history: the last catalog step
    \* ---- ONVIF adapter: heartbeat and status checker ------------------
    onvifDevs,    \* per device: the cached entry (NoEntry = none, Gone = deleted)
    onvifDb,      \* per device: IsOnline of the device row in the store
    onvifLeft,    \* time steps the run may still take
    flips,        \* history, per device: changes of the cached IsOnline
    writes,       \* history, per device: calls of syncDeviceStatusToDB
    cachedAge,    \* history, per device: seconds since it was cached (capped)
    onvifAct,     \* history: the last ONVIF step
    \* ---- recording retention ------------------------------------------
    recs,         \* the recordings table: per id a row, or NoRow
    files,        \* per id: the recording's file ("file", "missing", "locked")
    retConf,      \* the cleanup configuration: RetainDays, DiskUsageThreshold
    retNow,       \* wall clock, in hours
    lastPass,     \* history: the last cleanup pass and the rows it deleted
    retAct,       \* history: the last retention step
    \* ---- media-server nodes: NodeManager --------------------------------
    nodes,        \* cacheServers: per server id the WarpMediaServer
    smsNow,       \* wall clock of the node manager, seconds
    toVisit,      \* servers the running tick has still to visit
    pinging,      \* the server whose Ping is in flight (NoServer = none)
    smsLast,      \* history: the last IsOnline assignment of tickCheck
    smsAct,       \* history: the last node-manager step
    smsConnected, \* history: the servers whose Connect succeeded
    smsHeard,     \* history: the servers a keepalive or a successful Ping came from
    \* ---- AI tasks: reconciliation loop and /ai/stopped -----------------
    aiDisabled,   \* conf.Server.AI.Disabled
    aiEnabled,    \* per channel: Ext.EnabledAI of the channel row
    aiTasks,      \* aiTasks: channels with a detector task in memory
    aiPass,       \* the pass running or just returned: snapshots, what is left, what it did
    aiReported,   \* history: channels reported stopped and not started since
    aiAct,        \* history: the last AI step
    aiLive,       \* history: channels with a successful StartCamera and no stop since
    aiStale,      \* history: channels in aiTasks whose latest StartCamera failed
    \* ---- recordings playlist: RecordingAPI.generateM3U8WithToken --------
    hlsIn,        \* the recordings handed over, in the store's order, and the token
    hlsOut,       \* the playlist text, as a sequence of lines (NoReq = none yet)
    hlsAct,       \* history: the last playlist step
    \* ---- PTZ: the HTTP handlers and GB28181API.PTZControl ----------------
    ptzMem,       \* memoryStorer: is the GB channel loaded, is its device online
    ptzReq,       \* history: the last PTZ request
    ptzOut,       \* history: the reply to ptzReq and the control word sent
    ptzAct,       \* history: the last PTZ step
    \* ---- device store with its cache: ipccache Device.Add, Device.Del ----
    delDevs,      \* device rows, by device id
    delChans,     \* channel rows, as <<parent device, channel id>>
    delCached,    \* devices with an entry in the in-memory cache
    delLast,      \* history: the last Del, its outcome and the state before it
    delAct,       \* history: the last step of the device store
    \* ---- the batch loops of the cleanup workers, one iteration at a time ----
    swKind,       \* which loop runs: batchDeleteRecordings or cleanupExpiredEvents
    swRows,       \* the rows of the table that match the loop's condition
    swFiles,      \* the file of each row: "file", "locked" (cannot be removed), "missing"
    swDb,         \* the store during the pass: "ok", "delete_fails", "find_fails"
    swPhase,      \* "idle", "running", "done"
    swIter,       \* iterations of the loop so far, counted up to MaxSweepIter
    swAct,        \* history: the last step of the loop
    \* ---- login key pair: Secret.GetOrCreatePublicKey, Secret.Decrypt ----
    keyCur,       \* the key pair in the Secret (privateKey, publicKey): its number, 0 = nil
    keyExpired,   \* the numbers of the key pairs whose expiredAt has passed
    keyPc,        \* per caller: "idle", or "locking" between RUnlock and Lock
    keyHeld,      \* per caller: the public key GetOrCreatePublicKey returned to it, 0 = none
    keyDec,       \* history: the last Decrypt: caller, key it encrypted with, result
    keyAct,       \* history: the last step on the Secret
    \* ---- legacy stream migration: MigrateStreamData ---------------------
    migLegacy,    \* the legacy tables: which exist, and the rows of stream_pushs and stream_proxys
    migDevices,   \* the device rows
    migChannels,  \* the channel rows
    migNextID,    \* the next id of the unique-id generator
    migDone,      \* a run over these legacy tables has completed
    migLast,      \* history: the last run, its error and the store before it
    migAct,       \* history: the last migration step
    \* ---- frame capture: FrameCapture.captureLoop -------------------------
    fcStarted,    \* FrameCapture.started
    fcCancelled,  \* the capture context is cancelled
    fcPc,         \* the position of captureLoop
    fcFrameCh,    \* FrameCh: the frame numbers queued
    fcErrCh,      \* errCh: the number of errors queued (capacity 1)
    fcFrameCount, \* FrameCapture.frameCount
    fcSkipCount,  \* FrameCapture.skipCount
    fcDelivered,  \* history: the number of frames sent on FrameCh
    fcClosed,     \* history: the number of times FrameCh was closed
    fcStats,      \* the last Stats returned by GetStats, and a call under way
    fcAct         \* history: the last capture step

regVars == <<devices, cache, cfgPassword, regNow, issued, req, trace, regAct>>
pubVars == <<chans, pubNow, pubReq, pubResp, pubAct>>
catVars == <<bucket, timer, memChannels, chanRows, devRows, chunksLeft, faultsLeft, chunkAge,
             cycleIds, cycleChunks, opened, emitCount, lastEmit, catAct>>
onvifVars == <<onvifDevs, onvifDb, onvifLeft, flips, writes, cachedAge, onvifAct>>
retVars == <<recs, files, retConf, retNow, lastPass, retAct>>
smsVars == <<nodes, smsNow, toVisit, pinging, smsLast, smsAct, smsConnected, smsHeard>>
aiVars == <<aiDisabled, aiEnabled, aiTasks, aiPass, aiReported, aiAct, aiLive, aiStale>>
hlsVars == <<hlsIn, hlsOut, hlsAct>>
ptzVars == <<ptzMem, ptzReq, ptzOut, ptzAct>>
delVars == <<delDevs, delChans, delCached, delLast, delAct>>
sweepVars == <<swKind, swRows, swFiles, swDb, swPhase, swIter, swAct>>
keyVars == <<keyCur, keyExpired, keyPc, keyHeld, keyDec, keyAct>>
migVars == <<migLegacy, migDevices, migChannels, migNextID, migDone, migLast, migAct>>
fcVars == <<fcStarted, fcCancelled, fcPc, fcFrameCh, fcErrCh, fcFrameCount, fcSkipCount, fcDelivered, fcClosed, fcStats, fcAct>>
vars == <<regVars, pubVars, catVars, onvifVars, retVars, smsVars, aiVars, hlsVars, ptzVars, delVars, sweepVars, keyVars, migVars, fcVars>>

\* what each subsystem leaves alone
notRegVars == <<pubVars, catVars, onvifVars, retVars, smsVars, aiVars, hlsVars, ptzVars, delVars, sweepVars, keyVars, migVars, fcVars>>
notPubVars == <<regVars, catVars, onvifVars, retVars, smsVars, aiVars, hlsVars, ptzVars, delVars, sweepVars, keyVars, migVars, fcVars>>
notCatVars == <<regVars, pubVars, onvifVars, retVars, smsVars, aiVars, hlsVars, ptzVars, delVars, sweepVars, keyVars, migVars, fcVars>>
notOnvifVars == <<regVars, pubVars, catVars, retVars, smsVars, aiVars, hlsVars, ptzVars, delVars, sweepVars, keyVars, migVars, fcVars>>
notRetVars == <<regVars, pubVars, catVars, onvifVars, smsVars, aiVars, hlsVars, ptzVars, delVars, sweepVars, keyVars, migVars, fcVars>>
notSmsVars == <<regVars, pubVars, catVars, onvifVars, retVars, aiVars, hlsVars, ptzVars, delVars, sweepVars, keyVars, migVars, fcVars>>
notAiVars == <<regVars, pubVars, catVars, onvifVars, retVars, smsVars, hlsVars, ptzVars, delVars, sweepVars, keyVars, migVars, fcVars>>
notHlsVars == <<regVars, pubVars, catVars, onvifVars, retVars, smsVars, aiVars, ptzVars, delVars, sweepVars, keyVars, migVars, fcVars>>
notPtzVars == <<regVars, pubVars, catVars, onvifVars, retVars, smsVars, aiVars, hlsVars, delVars, sweepVars, keyVars, migVars, fcVars>>
notDelVars == <<regVars, pubVars, catVars, onvifVars, retVars, smsVars, aiVars, hlsVars, ptzVars, sweepVars, keyVars, migVars, fcVars>>
notSweepVars == <<regVars, pubVars, catVars, onvifVars, retVars, smsVars, aiVars, hlsVars, ptzVars, delVars, keyVars, migVars, fcVars>>
notKeyVars == <<regVars, pubVars, catVars, onvifVars, retVars, smsVars, aiVars, hlsVars, ptzVars, delVars, sweepVars, migVars, fcVars>>
notMigVars == <<regVars, pubVars, catVars, onvifVars, retVars, smsVars, aiVars, hlsVars, ptzVars, delVars, sweepVars, keyVars, fcVars>>
notFcVars == <<regVars, pubVars, catVars, onvifVars, retVars, smsVars, aiVars, hlsVars, ptzVars, delVars, sweepVars, keyVars, migVars>>

(***************************************************************************)
(* Strings that the code inspects rune by rune are sequences of runes.     *)
(* A rune is named by its character ("3", "a") or by its code point.       *)
(***************************************************************************)
AsciiDigits == {"0", "1", "2", "3", "4", "5", "6", "7", "8", "9"}
AsciiOther  == {"a", "x", "+", "-"}
\* U+0663 ARABIC-INDIC DIGIT THREE (category Nd), U+00E9 e-acute (category Ll)
WideNumber  == {"U0663"}
WideOther   == {"U00E9"}
Runes       == AsciiDigits \cup AsciiOther \cup WideNumber \cup WideOther

\* UTF-8 encoded length of a rune: Go's len(string) counts bytes
Utf8Len(r) == IF r \in AsciiDigits \cup AsciiOther THEN 1 ELSE 2

\* unicode.IsNumber: category N (Nd, Nl, No), not only '0'..'9'
IsNumber(r) == r \in AsciiDigits \cup WideNumber

RECURSIVE ByteLen(_)
ByteLen(s) == IF s = <<>> THEN 0 ELSE Utf8Len(Head(s)) + ByteLen(Tail(s))

Rep(c, n) == [i \in 1..n |-> c]

MinIDLen == 18
MaxIDLen == 20

\* filterUnknowDevices: "nil" or the error
filterUnknowDevices(deviceID) ==
    IF ByteLen(deviceID) < MinIDLen THEN "device id too short"
    ELSE IF ByteLen(deviceID) > MaxIDLen THEN "device id too long"
    ELSE IF \E i \in 1..Len(deviceID) : ~IsNumber(deviceID[i])
         THEN "device id must be all numbers"
         ELSE "nil"

\* strconv.Atoi, with its error dropped as at register.go:183 (result 0)
DigitVal(r) == CHOOSE v \in 0..9 : ToString(v) = r

RECURSIVE ParseDigits(_, _)
ParseDigits(s, acc) ==
    IF s = <<>> THEN acc ELSE ParseDigits(Tail(s), 10 * acc + DigitVal(Head(s)))

Atoi(s) ==
    LET signed == s # <<>> /\ Head(s) \in {"+", "-"}
        body   == IF signed THEN Tail(s) ELSE s
    IN  IF body = <<>> \/ \E i \in 1..Len(body) : body[i] \notin AsciiDigits
        THEN 0
        ELSE IF signed /\ Head(s) = "-" THEN 0 - ParseDigits(body, 0)
             ELSE ParseDigits(body, 0)

(***************************************************************************)
(* The digest of sip.Authorization.CalcResponse:                           *)
(* MD5(MD5(user:realm:pass) : nonce : MD5(method:uri)); MD5 is modelled as *)
(* a collision-free constructor.                                           *)
(***************************************************************************)
MD5(x) == <<"md5", x>>

CalcResponse(user, realm, pass, nonce, method, uri) ==
    MD5(<<MD5(<<user, realm, pass>>), nonce, MD5(<<method, uri>>)>>)

ignorePassword == "#"
Realm == "3402000000"
RegisterURI == "sip:34020000002000000001@3402000000"

\* ---- bounded inputs ----------------------------------------------------
\* Device ids are named; RunesOf gives the string each name stands for.
RegisterIDs == {"A", "Short", "Long", "Alpha", "Wide"}
RunesOf(id) ==
    CASE id = "A"     -> Rep("3", 20)
      [] id = "Short" -> Rep("3", 17)
      [] id = "Long"  -> Rep("3", 21)
      [] id = "Alpha" -> Rep("3", 19) \o <<"a">>
      [] id = "Wide"  -> Rep("3", 16) \o <<"U0663">>

CfgPasswords    == {"", "12345678"}
DevicePasswords == {"", ignorePassword}
UsedPasswords   == {"12345678", "wrong"}
ServerNonces    == {"n1"}
RequestNonces   == ServerNonces \cup {"forged"}
ExpiresValues   == {<<"0">>, <<"6", "0">>, <<"x">>}

TickSeconds == 40
MaxClock    == 40
NonceWindow == 30
Never       == 0 - 1

NoRow   == [none |-> TRUE]
NoEntry == [none |-> TRUE]
NoReq   == [none |-> TRUE]

\* Device.init: a fresh row has no password, is offline, has no expiry
NewRow == [Password |-> "", IsOnline |-> FALSE, Expires |-> 0]

\* gbs.NewDevice(conn, dev): the cache entry mirrors the row
Mirror(row) == [Password |-> row.Password, IsOnline |-> row.IsOnline, Expires |-> row.Expires]

\* &Device{conn, source, to}: every other field is the zero value
BareEntry == [Password |-> "", IsOnline |-> FALSE, Expires |-> 0]

\* The REGISTER requests tried: every form for device A, and one form without
\* Authorization, under each store outcome, for every id.
FullIDs == {"A"}
Requests ==
    [id : FullIDs, hasAuth : {FALSE}, nonce : {"none"}, used : {"none"},
     expire : ExpiresValues, store : {"ok"}]
    \cup
    [id : FullIDs, hasAuth : {TRUE}, nonce : RequestNonces, used : UsedPasswords,
     expire : ExpiresValues, store : {"ok"}]
    \cup
    [id : RegisterIDs, hasAuth : {FALSE}, nonce : {"none"}, used : {"none"},
     expire : {<<"6", "0">>}, store : {"ok", "get", "add"}]

\* the response field of the Authorization header the device sends
AuthResponse(r) == CalcResponse(r.id, Realm, r.used, r.nonce, "REGISTER", RegisterURI)

Resp(code, header) == <<"resp", code, header>>
Query(what) == <<"query", what>>

(***************************************************************************)
(* GB28181 registrar: GB28181API.handlerRegister and what it calls.        *)
(***************************************************************************)

\* filterUnknowDevices and Atoi on the inputs tried, computed once
FilterOf == [id \in RegisterIDs |-> filterUnknowDevices(RunesOf(id))]
AtoiOf == [e \in ExpiresValues |-> Atoi(e)]

\* conc.Map.LoadOrStore
LoadOrStore(cch, id, entry) == IF cch[id] = NoEntry THEN [cch EXCEPT ![id] = entry] ELSE cch

\* Adapter.GetDeviceByDeviceID over ipccache: Get, and on "record not found" init + Add
\* (ipccache Device.Add also caches the new row). outcome names the store call that fails.
GetDeviceByDeviceID(devs, cch, id, outcome) ==
    IF outcome = "get" THEN [err |-> TRUE, row |-> NoRow, devices |-> devs, cache |-> cch]
    ELSE IF devs[id] # NoRow
         THEN [err |-> FALSE, row |-> devs[id], devices |-> devs, cache |-> cch]
    ELSE IF outcome = "add"
         THEN [err |-> TRUE, row |-> NoRow, devices |-> devs, cache |-> cch]
         ELSE [err |-> FALSE, row |-> NewRow,
               devices |-> [devs EXCEPT ![id] = NewRow],
               cache |-> LoadOrStore(cch, id, Mirror(NewRow))]

EffectivePassword_IgnoreSentinel(row, cfg) ==
    IF row.Password = "" THEN cfg ELSE row.Password

\* register.go:128-135: the password the digest is checked against ("" = no check)
EffectivePassword(row, cfg) ==
    IF row.Password = ignorePassword THEN ""
    ELSE IF row.Password = "" THEN cfg
    ELSE row.Password

\* register.go:145-151: the digest the registrar expects for this request
ExpectedResponse(r, password) ==
    CalcResponse(r.id, Realm, password, r.nonce, "REGISTER", RegisterURI)

loginChange_KeepExpires(row, expire) == [row EXCEPT !.IsOnline = TRUE]

\* register.go:179-188: the change login applies to the row
loginChange(row, expire) == [row EXCEPT !.IsOnline = TRUE, !.Expires = AtoiOf[expire]]

\* register.go:170-174: the change logout applies to the row
logoutChange(row) == [row EXCEPT !.IsOnline = FALSE]

\* register.go:205-209: conn, source and to are not modelled
loginCacheChange(entry) == entry

\* register.go:214-217
logoutCacheChange(entry) == [entry EXCEPT !.Expires = 0, !.IsOnline = FALSE]

\* The second function handed to Change, by the caller that hands it
ApplyCacheChange(caller, entry) ==
    CASE caller = "login"  -> loginCacheChange(entry)
      [] caller = "logout" -> logoutCacheChange(entry)
      [] OTHER             -> entry

\* MemoryStorer.Change(deviceID, changeFn, changeFn2): store row (the row as changeFn
\* leaves it), refresh the cache entry from it, then apply changeFn2 to the entry.
\* A missing row is an error and nothing changes.
Change(devs, cch, id, row, caller) ==
    IF devs[id] = NoRow THEN [devices |-> devs, cache |-> cch]
    ELSE [devices |-> [devs EXCEPT ![id] = row],
          cache   |-> IF cch[id] = NoEntry THEN cch
                      ELSE [cch EXCEPT ![id] = ApplyCacheChange(caller, Mirror(row))]]

IsLogout_Never(expire) == FALSE

\* register.go:167-168
IsLogout(expire) == expire = <<"0">>

\* GB28181API.handlerRegister; fresh is what sip.RandString(32) returns
handlerRegister(devs, cch, cfg, r, fresh) ==
    IF FilterOf[r.id] # "nil"
    THEN [devices |-> devs, cache |-> cch, challenge |-> "none",
          trace |-> <<Resp(400, "none")>>]
    ELSE
    LET g == GetDeviceByDeviceID(devs, cch, r.id, r.store) IN
    IF g.err
    THEN [devices |-> g.devices, cache |-> g.cache, challenge |-> "none",
          trace |-> <<Resp(500, "none")>>]
    ELSE
    LET c1       == LoadOrStore(g.cache, r.id, BareEntry)
        password == EffectivePassword(g.row, cfg)
    IN
    IF password # "" /\ ~r.hasAuth
    THEN [devices |-> g.devices, cache |-> c1, challenge |-> fresh,
          trace |-> <<Resp(401, "WWW-Authenticate")>>]
    ELSE IF password # "" /\ ExpectedResponse(r, password) # AuthResponse(r)
    THEN [devices |-> g.devices, cache |-> c1, challenge |-> "none",
          trace |-> <<Resp(401, "none")>>]
    ELSE IF IsLogout(r.expire)
    THEN LET out == Change(g.devices, c1, r.id, logoutChange(g.devices[r.id]), "logout")
         IN  [devices |-> out.devices, cache |-> out.cache, challenge |-> "none",
              trace |-> <<Resp(200, "Date")>>]
    ELSE LET out == Change(g.devices, c1, r.id,
                           loginChange(g.devices[r.id], r.expire), "login")
         IN  [devices |-> out.devices, cache |-> out.cache, challenge |-> "none",
              trace |-> <<Resp(200, "Date"), Query("DeviceInfo"), Query("Catalog"),
                          Query("ConfigDownloadBasic")>>]

\* ipccache Device.Edit with a change of the password: the row is edited; a cached
\* GB28181 device whose password differs is taken offline and must register again
EditPassword(devs, cch, id, p) ==
    LET setPw(row) == [row EXCEPT !.Password = p]
        edited == [devs EXCEPT ![id] = setPw(devs[id])]
        offline == [edited[id] EXCEPT !.Password = p, !.IsOnline = FALSE]
    IN  IF cch[id] # NoEntry /\ cch[id].Password # p /\ p # ""
        THEN Change(edited, cch, id, offline, "edit")
        ELSE [devices |-> edited, cache |-> cch]

RegInit ==
    /\ devices = [id \in RegisterIDs |-> NoRow]
    /\ cache = [id \in RegisterIDs |-> NoEntry]
    /\ cfgPassword \in CfgPasswords
    /\ regNow = 0
    /\ issued = [n \in ServerNonces |-> Never]
    /\ req = NoReq
    /\ trace = <<>>
    /\ regAct = "init"

Register ==
    \E r \in Requests, fresh \in ServerNonces :
        LET out == handlerRegister(devices, cache, cfgPassword, r, fresh) IN
        /\ devices' = out.devices
        /\ cache' = out.cache
        /\ trace' = out.trace
        /\ issued' = IF out.challenge = "none" THEN issued
                     ELSE [issued EXCEPT ![out.challenge] = regNow]
        /\ req' = r
        /\ regAct' = "register"
        /\ UNCHANGED <<cfgPassword, regNow>>
        /\ UNCHANGED notRegVars

AdminEditPassword ==
    \E id \in RegisterIDs, p \in DevicePasswords :
        /\ devices[id] # NoRow
        /\ LET out == EditPassword(devices, cache, id, p) IN
           /\ devices' = out.devices
           /\ cache' = out.cache
        /\ regAct' = "edit"
        /\ UNCHANGED <<cfgPassword, regNow, issued, req, trace>>
        /\ UNCHANGED notRegVars

RegTick ==
    /\ regNow + TickSeconds <= MaxClock
    /\ regNow' = regNow + TickSeconds
    /\ regAct' = "tick"
    /\ UNCHANGED <<devices, cache, cfgPassword, issued, req, trace>>
    /\ UNCHANGED notRegVars

RegNext == Register \/ AdminEditPassword \/ RegTick

(***************************************************************************)
(* SMS webhooks: WebHookAPI.onPublish, onStreamChanged, onPlay and         *)
(* onStreamNoneReader, and the RTMP, RTSP and GB28181 adapters they reach. *)
(***************************************************************************)
RTMPSecret == "s3cret"

PubStreams  == {"rtmp_a", "rtmp_b", "gb_a", "rtsp_a"}
RtmpStreams == {"rtmp_a", "rtmp_b"}
RtspStreams == {"rtsp_a"}

\* ipc.GetType: the channel type is read off the stream name
GetType(stream) ==
    IF stream \in RtmpStreams THEN "RTMP"
    ELSE IF stream \in RtspStreams THEN "RTSP"
    ELSE "GB28181"

\* provider.go:159-164: the adapters registered, and the one that is an ipc.OnPublisher
Protocols    == {"ONVIF", "RTSP", "RTMP", "GB28181"}
OnPublishers == {"RTMP"}

MaxPubClock == 1
Nil         == 0 - 1
NoChannel   == [none |-> TRUE]

PubSessions == {"s1"}
\* a string that is not a digest, as a value of the same shape as MD5(x)
Plain(x) == <<"plain", x>>
\* params["sign"]: the empty string when the query has no sign
SignValues  == {Plain(""), MD5(RTMPSecret), Plain(RTMPSecret)}
\* in.Params: a query url.ParseQuery rejects, or the map it yields
PubParams   == {[malformed |-> TRUE]}
               \cup [malformed : {FALSE}, sign : SignValues, session : PubSessions]

FreshChannel(authDisabled) ==
    [IsAuthDisabled |-> authDisabled, IsOnline |-> FALSE, IsPlaying |-> FALSE,
     PushedAt |-> Nil, StoppedAt |-> Nil, Session |-> "", StreamKey |-> ""]

\* rtmpadapter OnPublish: sign == hook.MD5(conf.Server.RTMPSecret)
SignMatches(sign) == sign = MD5(RTMPSecret)

\* Core.EditChannelConfigAndOnline(id, online, fn): storeOk is whether the store took it
EditChannelConfigAndOnline(ch, online, pushedAt, session, storeOk) ==
    IF storeOk
    THEN [ch EXCEPT !.IsOnline = online, !.PushedAt = pushedAt, !.Session = session]
    ELSE ch

AdapterOnPublish_EditFirst(ch, params, now, storeOk) ==
    IF ch = NoChannel THEN [allowed |-> FALSE, err |-> TRUE, ch |-> ch]
    ELSE [allowed |-> ch.IsAuthDisabled \/ SignMatches(params.sign), err |-> FALSE,
          ch |-> EditChannelConfigAndOnline(ch, TRUE, now, params.session, storeOk)]

\* rtmpadapter Adapter.OnPublish: [allowed, err, ch]
AdapterOnPublish(ch, params, now, storeOk) ==
    IF ch = NoChannel THEN [allowed |-> FALSE, err |-> TRUE, ch |-> ch]
    ELSE IF ch.IsAuthDisabled THEN [allowed |-> TRUE, err |-> FALSE, ch |-> ch]
    ELSE IF ~SignMatches(params.sign) THEN [allowed |-> FALSE, err |-> FALSE, ch |-> ch]
    ELSE [allowed |-> TRUE, err |-> FALSE,
          ch |-> EditChannelConfigAndOnline(ch, TRUE, now, params.session, storeOk)]

\* WebHookAPI.onPublish: [code, chans]
onPublish(cs, stream, params, now, storeOk) ==
    IF GetType(stream) \notin Protocols THEN [code |-> 0, chans |-> cs]
    ELSE IF GetType(stream) \notin OnPublishers THEN [code |-> 0, chans |-> cs]
    ELSE IF params.malformed THEN [code |-> 1, chans |-> cs]
    ELSE LET out == AdapterOnPublish(cs[stream], params, now, storeOk)
             after == [cs EXCEPT ![stream] = out.ch]
         IN  IF out.err THEN [code |-> 1, chans |-> after]
             ELSE IF ~out.allowed THEN [code |-> 1, chans |-> after]
             ELSE [code |-> 0, chans |-> after]

RtmpOnStreamChanged_StopOnError(ch, now, ok1, ok2) ==
    IF ch = NoChannel THEN ch
    ELSE IF ~ok1 THEN ch
    ELSE IF ok2 THEN [ch EXCEPT !.IsOnline = FALSE, !.StoppedAt = now, !.IsPlaying = FALSE]
    ELSE [ch EXCEPT !.IsOnline = FALSE, !.StoppedAt = now]

\* rtmpadapter Adapter.OnStreamChanged (regist=false): two edits, each may fail
RtmpOnStreamChanged(ch, now, ok1, ok2) ==
    IF ch = NoChannel THEN ch
    ELSE LET c1 == IF ok1 THEN [ch EXCEPT !.IsOnline = FALSE, !.StoppedAt = now] ELSE ch
         IN  IF ok2 THEN [c1 EXCEPT !.IsPlaying = FALSE] ELSE c1

\* rtspadapter Adapter.OnStreamChanged (regist=false): one edit of both flags
RtspOnStreamChanged(ch, ok) ==
    IF ch = NoChannel THEN ch
    ELSE IF ok THEN [ch EXCEPT !.IsOnline = FALSE, !.IsPlaying = FALSE]
    ELSE ch

\* gbadapter Adapter.OnStreamChanged (regist=false): [ch, effects, err]
GbOnStreamChanged(ch, editOk, byeOk) ==
    IF ch = NoChannel THEN [ch |-> ch, effects |-> <<>>, err |-> TRUE]
    ELSE IF ~editOk THEN [ch |-> ch, effects |-> <<>>, err |-> TRUE]
    ELSE [ch |-> [ch EXCEPT !.IsPlaying = FALSE], effects |-> <<"bye">>, err |-> ~byeOk]

\* Core.EditChannelPlaying(stream, playing): the channel of the stream, if stored
EditChannelPlaying(cs, stream, playing, storeOk) ==
    IF cs[stream] # NoChannel /\ storeOk THEN [cs EXCEPT ![stream].IsPlaying = playing]
    ELSE cs

\* WebHookAPI.onStreamChanged: [code, chans, effects]; recOk, ok1 and ok2 are the
\* outcomes of the recording call and of the adapter's calls
onStreamChanged(cs, stream, regist, now, recOk, ok1, ok2) ==
    IF regist
    THEN [code |-> 0, chans |-> cs,
          effects |-> <<IF recOk THEN "start_recording" ELSE "start_recording_failed">>]
    ELSE
    LET stop == <<IF recOk THEN "stop_recording" ELSE "stop_recording_failed">>
        type == GetType(stream)
    IN  IF type \notin Protocols THEN [code |-> 0, chans |-> cs, effects |-> stop]
        ELSE IF type = "RTMP"
        THEN [code |-> 0, effects |-> stop,
              chans |-> [cs EXCEPT ![stream] = RtmpOnStreamChanged(@, now, ok1, ok2)]]
        ELSE IF type = "RTSP"
        THEN [code |-> 0, effects |-> stop,
              chans |-> [cs EXCEPT ![stream] = RtspOnStreamChanged(@, ok1)]]
        ELSE LET out == GbOnStreamChanged(cs[stream], ok1, ok2)
             IN  [code |-> 0, effects |-> stop \o out.effects,
                  chans |-> [cs EXCEPT ![stream] = out.ch]]

\* WebHookAPI.onPlay: [code, chans]
onPlay(cs, stream, storeOk) ==
    [code |-> 0, chans |-> EditChannelPlaying(cs, stream, TRUE, storeOk)]

onStreamNoneReader_KeepPlaying(cs, stream, storeOk) == [close |-> TRUE, chans |-> cs]

\* WebHookAPI.onStreamNoneReader: [close, chans]
onStreamNoneReader(cs, stream, storeOk) ==
    [close |-> TRUE, chans |-> EditChannelPlaying(cs, stream, FALSE, storeOk)]

\* resp.Data.Key of AddStreamProxy, and the key of the proxy set up before
StreamKeys == {"k1"}
OldKey     == "k0"
\* <<lalmax, in.Schema>>: a lalmax hook carries StreamName, a ZLM hook carries
\* the schema of the request
NotFoundInputs == {<<FALSE, "rtsp">>, <<FALSE, "rtp">>, <<TRUE, "">>}

RtspOnStreamNotFound_StoreFirst(ch, smsOk, proxyOk, key, storeOk) ==
    IF ch = NoChannel THEN [ch |-> ch, err |-> TRUE, effects |-> <<>>]
    ELSE LET kept == IF storeOk THEN [ch EXCEPT !.IsOnline = TRUE, !.StreamKey = key]
                     ELSE ch
         IN  IF ~smsOk THEN [ch |-> kept, err |-> TRUE, effects |-> <<>>]
             ELSE IF ~proxyOk
             THEN [ch |-> kept, err |-> TRUE, effects |-> <<"add_stream_proxy_failed">>]
             ELSE [ch |-> kept, err |-> ~storeOk, effects |-> <<"add_stream_proxy">>]

\* rtspadapter Adapter.OnStreamNotFound: [ch, err, effects]; smsOk, proxyOk and
\* storeOk are the outcomes of GetMediaServer, AddStreamProxy and the edit
RtspOnStreamNotFound(ch, smsOk, proxyOk, key, storeOk) ==
    IF ch = NoChannel THEN [ch |-> ch, err |-> TRUE, effects |-> <<>>]
    ELSE IF ~smsOk THEN [ch |-> ch, err |-> TRUE, effects |-> <<>>]
    ELSE IF ~proxyOk
    THEN [ch |-> ch, err |-> TRUE, effects |-> <<"add_stream_proxy_failed">>]
    ELSE [ch |-> IF storeOk THEN [ch EXCEPT !.IsOnline = TRUE, !.StreamKey = key]
                 ELSE ch,
          err |-> ~storeOk, effects |-> <<"add_stream_proxy">>]

\* gbadapter Adapter.OnStreamNotFound: the channel, its device and the media
\* server are looked up, then gbs.Play invites the device
GbOnStreamNotFound(ch, smsOk, playOk) ==
    IF ch = NoChannel THEN [ch |-> ch, err |-> TRUE, effects |-> <<>>]
    ELSE IF ~smsOk THEN [ch |-> ch, err |-> TRUE, effects |-> <<>>]
    ELSE IF ~playOk THEN [ch |-> ch, err |-> TRUE, effects |-> <<"invite_failed">>]
    ELSE [ch |-> [ch EXCEPT !.IsPlaying = TRUE], err |-> FALSE, effects |-> <<"invite">>]

\* WebHookAPI.onStreamNotFound: [code, chans, err, effects]; the adapter's error
\* is logged and the reply is OK
onStreamNotFound(cs, stream, lalmax, schema, smsOk, callOk, key, storeOk) ==
    IF ~lalmax /\ schema \notin {"rtmp", "rtsp"}
    THEN [code |-> 0, chans |-> cs, err |-> FALSE, effects |-> <<>>]
    ELSE
    LET type == GetType(stream)
        out == IF type = "RTSP"
               THEN RtspOnStreamNotFound(cs[stream], smsOk, callOk, key, storeOk)
               ELSE IF type = "RTMP"
               THEN [ch |-> cs[stream], err |-> FALSE, effects |-> <<>>]
               ELSE GbOnStreamNotFound(cs[stream], smsOk, callOk)
    IN  IF type \notin Protocols
        THEN [code |-> 0, chans |-> cs, err |-> FALSE, effects |-> <<>>]
        ELSE [code |-> 0, chans |-> [cs EXCEPT ![stream] = out.ch], err |-> out.err,
              effects |-> out.effects]

\* a webhook's reply and what the handler called on the way
Reply(code, close, effects) == [code |-> code, close |-> close, effects |-> effects]

PubIdle ==
    /\ chans = [st \in PubStreams |-> NoChannel]
    /\ pubNow = 0
    /\ pubReq = NoReq
    /\ pubResp = NoReq
    /\ pubAct = "init"

\* rtmp_a has a channel row, with or without publish authentication, gb_a has
\* one, rtsp_a has one whose pulled stream is up; rtmp_b has none
PubInit ==
    /\ \E authDisabled \in BOOLEAN :
          chans = [st \in PubStreams |->
                      IF st = "rtmp_a" THEN FreshChannel(authDisabled)
                      ELSE IF st = "gb_a" THEN FreshChannel(FALSE)
                      ELSE IF st = "rtsp_a"
                      THEN [FreshChannel(FALSE) EXCEPT !.IsOnline = TRUE,
                                                       !.StreamKey = OldKey]
                      ELSE NoChannel]
    /\ pubNow = 0
    /\ pubReq = NoReq
    /\ pubResp = NoReq
    /\ pubAct = "init"

OnPublishHook ==
    \E stream \in PubStreams, params \in PubParams, storeOk \in BOOLEAN :
        LET out == onPublish(chans, stream, params, pubNow, storeOk) IN
        \* the store fails only where the handler reaches it
        /\ ~storeOk => (GetType(stream) \in OnPublishers /\ ~params.malformed
                          /\ chans[stream] # NoChannel)
        /\ chans' = out.chans
        /\ pubReq' = [hook |-> "on_publish", stream |-> stream, params |-> params,
                      storeOk |-> storeOk, before |-> chans[stream]]
        /\ pubResp' = Reply(out.code, FALSE, <<>>)
        /\ pubAct' = "on_publish"
        /\ UNCHANGED pubNow
        /\ UNCHANGED notPubVars

\* WebHookAPI.onStreamChanged: only a stream that goes away reaches the adapter
OnStreamChangedHook ==
    \E stream \in PubStreams, regist \in BOOLEAN, recOk \in BOOLEAN,
       ok1 \in BOOLEAN, ok2 \in BOOLEAN :
        LET out == onStreamChanged(chans, stream, regist, pubNow, recOk, ok1, ok2) IN
        \* the adapter's calls fail only where the handler reaches them
        /\ (regist \/ chans[stream] = NoChannel) => (ok1 /\ ok2)
        /\ GetType(stream) = "RTSP" => ok2
        /\ chans' = out.chans
        /\ pubReq' = [hook |-> "on_stream_changed", stream |-> stream, regist |-> regist,
                      recOk |-> recOk, ok1 |-> ok1, ok2 |-> ok2, before |-> chans[stream]]
        /\ pubResp' = Reply(out.code, FALSE, out.effects)
        /\ pubAct' = "on_stream_changed"
        /\ UNCHANGED pubNow
        /\ UNCHANGED notPubVars

\* WebHookAPI.onPlay: Core.EditChannelPlaying(stream, true)
OnPlayHook ==
    \E stream \in PubStreams, storeOk \in BOOLEAN :
        LET out == onPlay(chans, stream, storeOk) IN
        /\ chans[stream] = NoChannel => storeOk
        /\ chans' = out.chans
        /\ pubReq' = [hook |-> "on_play", stream |-> stream, storeOk |-> storeOk]
        /\ pubResp' = Reply(out.code, FALSE, <<>>)
        /\ pubAct' = "on_play"
        /\ UNCHANGED pubNow
        /\ UNCHANGED notPubVars

\* WebHookAPI.onStreamNoneReader: Core.EditChannelPlaying(stream, false)
OnStreamNoneReaderHook ==
    \E stream \in PubStreams, storeOk \in BOOLEAN :
        LET out == onStreamNoneReader(chans, stream, storeOk) IN
        /\ chans[stream] = NoChannel => storeOk
        /\ chans' = out.chans
        /\ pubReq' = [hook |-> "on_stream_none_reader", stream |-> stream,
                      storeOk |-> storeOk, before |-> chans[stream]]
        /\ pubResp' = Reply(0, out.close, <<>>)
        /\ pubAct' = "on_stream_none_reader"
        /\ UNCHANGED pubNow
        /\ UNCHANGED notPubVars

\* gbs.Play: the device answered the INVITE with 200 OK and the channel is
\* marked playing
PlayAccepted ==
    \E stream \in PubStreams \ (RtmpStreams \cup RtspStreams) :
        /\ chans[stream] # NoChannel
        /\ ~chans[stream].IsPlaying
        /\ chans' = [chans EXCEPT ![stream].IsPlaying = TRUE]
        /\ pubReq' = [hook |-> "play", stream |-> stream]
        /\ pubResp' = Reply(0, FALSE, <<"invite">>)
        /\ pubAct' = "play"
        /\ UNCHANGED pubNow
        /\ UNCHANGED notPubVars

\* WebHookAPI.onStreamNotFound: a player asked for a stream the SMS does not have
OnStreamNotFoundHook ==
    \E stream \in PubStreams, in \in NotFoundInputs, key \in StreamKeys,
       smsOk \in BOOLEAN, callOk \in BOOLEAN, storeOk \in BOOLEAN :
        LET lalmax == in[1]
            schema == in[2]
            out == onStreamNotFound(chans, stream, lalmax, schema, smsOk, callOk, key,
                                    storeOk)
            routed == (lalmax \/ schema \in {"rtmp", "rtsp"})
                      /\ GetType(stream) # "RTMP" /\ chans[stream] # NoChannel
        IN
        \* a call fails only where the handler reaches it
        /\ ~smsOk => routed
        /\ ~callOk => (routed /\ smsOk)
        /\ ~storeOk => (routed /\ smsOk /\ callOk /\ GetType(stream) = "RTSP")
        /\ chans' = out.chans
        /\ pubReq' = [hook |-> "on_stream_not_found", stream |-> stream,
                      smsOk |-> smsOk, callOk |-> callOk, storeOk |-> storeOk,
                      key |-> key, err |-> out.err, before |-> chans[stream]]
        /\ pubResp' = Reply(out.code, FALSE, out.effects)
        /\ pubAct' = "on_stream_not_found"
        /\ UNCHANGED pubNow
        /\ UNCHANGED notPubVars

PubTick ==
    /\ pubNow < MaxPubClock
    /\ pubNow' = pubNow + 1
    /\ pubAct' = "tick"
    /\ UNCHANGED <<chans, pubReq, pubResp>>
    /\ UNCHANGED notPubVars

PubNext ==
    \/ OnPublishHook \/ OnStreamChangedHook \/ OnPlayHook \/ OnStreamNoneReaderHook
    \/ PlayAccepted \/ PubTick

\* the hooks of a stream the platform pulls on demand (RTSP proxy, GB28181
\* invite): asked for, registered, played, left, unregistered
PullNext ==
    \/ OnStreamNotFoundHook \/ OnStreamChangedHook \/ OnPlayHook
    \/ OnStreamNoneReaderHook \/ PlayAccepted \/ PubTick

RegIdle ==
    /\ devices = [id \in RegisterIDs |-> NoRow]
    /\ cache = [id \in RegisterIDs |-> NoEntry]
    /\ cfgPassword = ""
    /\ regNow = 0
    /\ issued = [n \in ServerNonces |-> Never]
    /\ req = NoReq
    /\ trace = <<>>
    /\ regAct = "init"

(***************************************************************************)
(* GB28181 catalog: the collector (one bucket per device, quiescence       *)
(* timer), the emission callback of NewGB28181API and Adapter.SaveChannels.*)
(***************************************************************************)
CatDevices  == {"d1", "d2"}
ChannelIDs  == {"c1", "c2", "c3"}
Statuses    == {"ON", "OFF"}
MaxChunkLen == 2
MaxChunks   == 3
MaxRows     == 5
\* store faults allowed in a catalog run, and in a run of merges
MaxCatalogFaults == 1
MaxMergeFaults   == 2
\* the quiescence window, in ticks
QuiesceWindow == 2
Idle        == 0 - 1
NotLoaded   == {"not loaded"}

\* one <Item> of a catalog response
Item(channelID, status) == [ChannelID |-> channelID, Name |-> "n1", Status |-> status]

\* the items the devices send in chunks, and the chunks
ChunkEntries == {Item("c1", "ON"), Item("c2", "OK"), Item("c3", "OFF")}
Chunks == UNION {[1..n -> ChunkEntries] : n \in 0..MaxChunkLen}

\* the lists a quiescent bucket may hold: at most one item per ChannelID
Reports ==
    {r \in UNION {[1..n -> [ChannelID : ChannelIDs, Name : {"n1"}, Status : Statuses]] :
                     n \in 0..Cardinality(ChannelIDs)} :
        \A i, j \in DOMAIN r : r[i].ChannelID = r[j].ChannelID => i = j}

\* the ids of a channel list, in order
RECURSIVE IdsOf(_)
IdsOf(list) ==
    IF list = <<>> THEN {} ELSE {Head(list).ChannelID} \cup IdsOf(Tail(list))

SameChannel_Never(c1, c2) == FALSE

\* register.go:40-42: the equality handed to sip.NewCollector
SameChannel(c1, c2) == c1.ChannelID = c2.ChannelID

\* the collector adds a chunk to a bucket: an entry the bucket already holds
\* an equal of (the equality of NewCollector) is dropped
RECURSIVE Extend(_, _)
Extend(b, chunk) ==
    IF chunk = <<>> THEN b
    ELSE Extend(IF \E i \in DOMAIN b : SameChannel(b[i], Head(chunk))
                THEN b ELSE Append(b, Head(chunk)),
                Tail(chunk))

\* register.go:73-84: the ipc.Channel built from an emitted entry
ToChannel(deviceID, e) ==
    [DeviceID |-> deviceID, ChannelID |-> e.ChannelID, Name |-> e.Name,
     IsOnline |-> (e.Status = "OK" \/ e.Status = "ON")]

ToChannels(deviceID, list) == [i \in 1..Len(list) |-> ToChannel(deviceID, list[i])]

\* the rows Find returns for the device, as a map from ChannelID to the row's
\* place in the table; a later row replaces an earlier one with the same ChannelID
ExistingMap(rows, deviceID, findOk) ==
    LET idx == IF findOk THEN {i \in DOMAIN rows : rows[i].DeviceID = deviceID} ELSE {}
    IN  [cid \in {rows[i].ChannelID : i \in idx} |->
            CHOOSE i \in idx : /\ rows[i].ChannelID = cid
                               /\ \A j \in idx : rows[j].ChannelID = cid => j <= i]

\* SaveChannels step 5: Edit the existing row or Add a new one, for each
\* reported channel in turn; the store operation of channel i is operation i + 2
RECURSIVE MergeLoop(_, _, _, _, _)
MergeLoop(rows, existingMap, channels, i, failAt) ==
    IF i > Len(channels) THEN rows
    ELSE LET channel == channels[i]
             ok      == failAt # i + 2
             next    == IF channel.ChannelID \in DOMAIN existingMap
                        THEN IF ok
                             THEN [rows EXCEPT ![existingMap[channel.ChannelID]] =
                                      [@ EXCEPT !.Name = channel.Name,
                                                !.IsOnline = channel.IsOnline]]
                             ELSE rows
                        ELSE IF ok THEN Append(rows, channel) ELSE rows
         IN  MergeLoop(next, existingMap, channels, i + 1, failAt)

BatchOffline_Skip(rows, deviceID, currentChannelIDs) == rows

\* SaveChannels step 6: BatchEdit is_online = false WHERE device_id = ? AND
\* channel_id NOT IN currentChannelIDs
BatchOffline(rows, deviceID, currentChannelIDs) ==
    [i \in DOMAIN rows |->
        IF rows[i].DeviceID = deviceID /\ rows[i].ChannelID \notin currentChannelIDs
        THEN [rows[i] EXCEPT !.IsOnline = FALSE]
        ELSE rows[i]]

\* Device().Edit setting d.Channels
EditDeviceChannels(devs, deviceID, n, ok) ==
    IF ok /\ devs[deviceID] # NoRow
    THEN [devs EXCEPT ![deviceID] = [Channels |-> n]]
    ELSE devs

\* Adapter.SaveChannels. Every store error is dropped and nil returned; failAt
\* names the one store operation that fails (0 = none): 1 the first device Edit,
\* 2 the Find, 3..n+2 the Edit or Add of channel 1..n, n+3 the BatchEdit, n+4
\* the last device Edit.
SaveChannels(rows, devs, channels, failAt) ==
    IF Len(channels) <= 0 THEN [rows |-> rows, devs |-> devs]
    ELSE LET n         == Len(channels)
             deviceID  == channels[1].DeviceID
             devs1     == EditDeviceChannels(devs, deviceID, n, failAt # 1)
             existing  == ExistingMap(rows, deviceID, failAt # 2)
             merged    == MergeLoop(rows, existing, channels, 1, failAt)
             current   == {channels[i].ChannelID : i \in 1..n}
             marked    == IF failAt # n + 3
                          THEN BatchOffline(merged, deviceID, current)
                          ELSE merged
         IN  [rows |-> marked,
              devs |-> EditDeviceChannels(devs1, deviceID, n, failAt # n + 4)]

CatalogCallback_NoEmptyCheck(deviceID, channel, mem, rows, devs, failAt) ==
    IF Len(channel) = 0
    THEN [mem  |-> mem,
          rows |-> BatchOffline(rows, deviceID, {}),
          devs |-> EditDeviceChannels(devs, deviceID, 0, TRUE)]
    ELSE LET saved == SaveChannels(rows, devs, ToChannels(deviceID, channel), failAt)
         IN  [mem  |-> IF mem[deviceID] # NotLoaded
                       THEN [mem EXCEPT ![deviceID] = @ \cup IdsOf(channel)]
                       ELSE mem,
              rows |-> saved.rows,
              devs |-> saved.devs]

\* the callback NewGB28181API starts the collector with
CatalogCallback(deviceID, channel, mem, rows, devs, failAt) ==
    IF Len(channel) = 0 THEN [mem |-> mem, rows |-> rows, devs |-> devs]
    ELSE LET saved == SaveChannels(rows, devs, ToChannels(deviceID, channel), failAt)
         IN  [mem  |-> IF mem[deviceID] # NotLoaded
                       THEN [mem EXCEPT ![deviceID] = @ \cup IdsOf(channel)]
                       ELSE mem,
              rows |-> saved.rows,
              devs |-> saved.devs]

StoredChannel(deviceID, channelID, online) ==
    [DeviceID |-> deviceID, ChannelID |-> channelID, Name |-> "n0", IsOnline |-> online]

\* the channel table the catalog runs start from
InitialRows ==
    <<StoredChannel("d1", "c1", TRUE), StoredChannel("d1", "c2", TRUE),
      StoredChannel("d2", "c1", TRUE)>>

\* channel tables a merge may find: two rows of d2, then any rows of d1
RowsOf(f) ==
    LET Stored(c) == f[c] # "none"
        present   == SelectSeq(<<"c1", "c2", "c3">>, Stored)
    IN  [i \in 1..Len(present) |-> StoredChannel("d1", present[i], f[present[i]] = "on")]

StoredTables ==
    { <<StoredChannel("d2", "c1", TRUE), StoredChannel("d2", "c2", FALSE)>> \o RowsOf(f)
      : f \in [ChannelIDs -> {"none", "on", "off"}] }

CatIdle ==
    /\ bucket = [d \in CatDevices |-> <<>>]
    /\ timer = [d \in CatDevices |-> Idle]
    /\ memChannels = [d \in CatDevices |-> NotLoaded]
    /\ chanRows = <<>>
    /\ devRows = [d \in CatDevices |-> NoRow]
    /\ chunksLeft = 0
    /\ faultsLeft = 0
    /\ chunkAge = [d \in CatDevices |-> QuiesceWindow]
    /\ cycleIds = [d \in CatDevices |-> {}]
    /\ cycleChunks = [d \in CatDevices |-> 0]
    /\ opened = [d \in CatDevices |-> 0]
    /\ emitCount = [d \in CatDevices |-> 0]
    /\ lastEmit = NoReq
    /\ catAct = "init"

\* d1 is registered and in memory; d2 has a device row but no in-memory device
CatInit ==
    /\ bucket = [d \in CatDevices |-> <<>>]
    /\ timer = [d \in CatDevices |-> Idle]
    /\ memChannels = [d \in CatDevices |-> IF d = "d1" THEN {} ELSE NotLoaded]
    /\ chanRows = InitialRows
    /\ devRows = [d \in CatDevices |->
                    [Channels |-> Cardinality({i \in DOMAIN chanRows : chanRows[i].DeviceID = d})]]
    /\ chunksLeft = MaxChunks
    /\ faultsLeft = MaxCatalogFaults
    /\ chunkAge = [d \in CatDevices |-> QuiesceWindow]
    /\ cycleIds = [d \in CatDevices |-> {}]
    /\ cycleChunks = [d \in CatDevices |-> 0]
    /\ opened = [d \in CatDevices |-> 0]
    /\ emitCount = [d \in CatDevices |-> 0]
    /\ lastEmit = NoReq
    /\ catAct = "init"

\* both buckets are quiescent: d1 holds any report, over any stored table
MergeInit ==
    /\ \E r \in Reports :
          bucket = [d \in CatDevices |-> IF d = "d1" THEN r ELSE <<Item("c1", "OFF")>>]
    /\ timer = [d \in CatDevices |-> 0]
    /\ memChannels = [d \in CatDevices |-> IF d = "d1" THEN {} ELSE NotLoaded]
    /\ chanRows \in StoredTables
    /\ devRows = [d \in CatDevices |->
                    [Channels |-> Cardinality({i \in DOMAIN chanRows : chanRows[i].DeviceID = d})]]
    /\ chunksLeft = 0
    /\ faultsLeft = MaxMergeFaults
    /\ chunkAge = [d \in CatDevices |-> QuiesceWindow]
    /\ cycleIds = [d \in CatDevices |-> IdsOf(bucket[d])]
    /\ cycleChunks = [d \in CatDevices |-> 1]
    /\ opened = [d \in CatDevices |-> 1]
    /\ emitCount = [d \in CatDevices |-> 0]
    /\ lastEmit = NoReq
    /\ catAct = "init"

\* a catalog MESSAGE of device d reaches the collector
SubmitChunk ==
    \E d \in CatDevices, chunk \in Chunks :
        /\ chunksLeft > 0
        /\ timer[d] # 0
        /\ chunksLeft' = chunksLeft - 1
        /\ bucket' = [bucket EXCEPT ![d] = Extend(@, chunk)]
        /\ timer' = [timer EXCEPT ![d] = QuiesceWindow]
        /\ chunkAge' = [chunkAge EXCEPT ![d] = 0]
        /\ cycleIds' = [cycleIds EXCEPT ![d] = @ \cup IdsOf(chunk)]
        /\ cycleChunks' = [cycleChunks EXCEPT ![d] = @ + 1]
        /\ opened' = [opened EXCEPT ![d] = IF chunkAge[d] >= QuiesceWindow THEN @ + 1 ELSE @]
        /\ catAct' = "chunk"
        /\ UNCHANGED <<memChannels, chanRows, devRows, faultsLeft, emitCount, lastEmit>>
        /\ UNCHANGED notCatVars

\* the bucket of device d is quiescent: the collector calls the callback once
Emit ==
    \E d \in CatDevices, failAt \in 0..(Cardinality(ChannelIDs) + 4) :
        /\ timer[d] = 0
        /\ failAt <= Len(bucket[d]) + 4
        /\ failAt # 0 => faultsLeft > 0
        /\ faultsLeft' = IF failAt # 0 THEN faultsLeft - 1 ELSE faultsLeft
        /\ failAt = 2 => Len(chanRows) + Len(bucket[d]) <= MaxRows
        /\ LET out == CatalogCallback(d, bucket[d], memChannels, chanRows, devRows, failAt) IN
           /\ memChannels' = out.mem
           /\ chanRows' = out.rows
           /\ devRows' = out.devs
        /\ lastEmit' = [device |-> d, list |-> bucket[d], age |-> chunkAge[d],
                        ids |-> cycleIds[d], chunks |-> cycleChunks[d],
                        before |-> chanRows, devsBefore |-> devRows,
                        failAt |-> failAt]
        /\ bucket' = [bucket EXCEPT ![d] = <<>>]
        /\ timer' = [timer EXCEPT ![d] = Idle]
        /\ cycleIds' = [cycleIds EXCEPT ![d] = {}]
        /\ cycleChunks' = [cycleChunks EXCEPT ![d] = 0]
        /\ emitCount' = [emitCount EXCEPT ![d] = @ + 1]
        /\ catAct' = "emit"
        /\ UNCHANGED <<chunksLeft, chunkAge, opened>>
        /\ UNCHANGED notCatVars

\* one tick passes; a due emission comes first
CatTick ==
    /\ \A d \in CatDevices : timer[d] # 0
    /\ \E d \in CatDevices : timer[d] > 0
    /\ timer' = [d \in CatDevices |-> IF timer[d] > 0 THEN timer[d] - 1 ELSE timer[d]]
    /\ chunkAge' = [d \in CatDevices |->
                      IF chunkAge[d] < QuiesceWindow THEN chunkAge[d] + 1 ELSE chunkAge[d]]
    /\ catAct' = "tick"
    /\ UNCHANGED <<bucket, memChannels, chanRows, devRows, chunksLeft, faultsLeft, cycleIds,
                   cycleChunks, opened, emitCount, lastEmit>>
    /\ UNCHANGED notCatVars

CatNext == SubmitChunk \/ Emit \/ CatTick

(***************************************************************************)
(* ONVIF adapter: sendHeartbeat, the status checker started by             *)
(* startHealthCheck, syncDeviceStatusToDB, InitDevice, DeleteDevice.       *)
(* Time is kept as the age of KeepaliveAt in seconds; an age at or above   *)
(* the timeout stays there, the checker does not tell such ages apart.     *)
(***************************************************************************)
HeartbeatTimeout == 70
CheckInterval    == 1

OnvifDevices  == {"o1", "o2"}
MaxOnvifSteps == 6
\* seconds without a heartbeat that QuietSeconds lets pass at once
QuietSpan     == 67
\* dev.KeepaliveAt.IsZero()
ZeroTime      == 0 - 1
Gone          == [gone |-> TRUE]

\* what a read of KeepaliveAt may yield while sendHeartbeat writes it (the old
\* value, the new one or a torn timestamp), up to what the checker makes of it:
\* zero, younger than the timeout, or not
RacingReads == {ZeroTime, 0, HeartbeatTimeout}

Cached(e) == e # NoEntry /\ e # Gone

\* secs seconds pass for an entry
AgedBy(e, secs) ==
    IF e.KeepaliveAge = ZeroTime THEN e
    ELSE [e EXCEPT !.KeepaliveAge =
             IF @ + secs >= HeartbeatTimeout THEN HeartbeatTimeout ELSE @ + secs]

\* the time between two firings of the checker's timer passes
Aged(e) == AgedBy(e, CheckInterval)

SameState_Never(isOnline, computed) == FALSE

\* startStatusChecker: dev.IsOnline == isOnline
SameState(isOnline, computed) == isOnline = computed

\* startStatusChecker, the body of Range for one device; seen is the value read
\* from dev.KeepaliveAt. [dev, wrote, isOnline]
CheckDevice(dev, seen) ==
    IF seen = ZeroTime THEN [dev |-> dev, wrote |-> FALSE, isOnline |-> dev.IsOnline]
    ELSE LET isOnline == seen < HeartbeatTimeout IN
         IF SameState(dev.IsOnline, isOnline)
         THEN [dev |-> dev, wrote |-> FALSE, isOnline |-> isOnline]
         ELSE [dev |-> [dev EXCEPT !.IsOnline = isOnline], wrote |-> TRUE,
               isOnline |-> isOnline]

\* syncDeviceStatusToDB: adapter.Edit of IsOnline; a store error is only logged
syncDeviceStatusToDB(db, did, isOnline, storeOk) ==
    IF storeOk /\ db[did] # NoRow THEN [db EXCEPT ![did] = [IsOnline |-> isOnline]] ELSE db

\* the checker's timer fires for one device, secs seconds after the last time,
\* from acc = [dev, writes, flips, isOnline]: the entry, the calls of
\* syncDeviceStatusToDB, the changes of dev.IsOnline, the state last written
CheckAfter(acc, secs) ==
    LET aged == AgedBy(acc.dev, secs)
        out  == CheckDevice(aged, aged.KeepaliveAge)
    IN  [dev      |-> out.dev,
         writes   |-> IF out.wrote THEN acc.writes + 1 ELSE acc.writes,
         flips    |-> IF out.dev.IsOnline # aged.IsOnline THEN acc.flips + 1 ELSE acc.flips,
         isOnline |-> IF out.wrote THEN out.isOnline ELSE acc.isOnline]

\* QuietSpan seconds without a heartbeat, the timer firing every CheckInterval:
\* the age crosses the timeout at most once, so every firing finds it on the
\* side the first or the last firing finds it; those two are run
RunQuiet(dev) ==
    CheckAfter(CheckAfter([dev |-> dev, writes |-> 0, flips |-> 0, isOnline |-> dev.IsOnline],
                          CheckInterval),
               QuietSpan - CheckInterval)

\* changes of the cached IsOnline between two maps of entries
Flip(before, after, d) ==
    IF Cached(before[d]) /\ Cached(after[d]) /\ before[d].IsOnline # after[d].IsOnline
    THEN 1 ELSE 0

\* secs more seconds in the cache for every cached device, capped at the timeout
CachedFor(ages, devs, secs) ==
    [d \in OnvifDevices |->
        IF ~Cached(devs[d]) THEN ages[d]
        ELSE IF ages[d] + secs >= HeartbeatTimeout THEN HeartbeatTimeout ELSE ages[d] + secs]

OnvifIdle ==
    /\ onvifDevs = [d \in OnvifDevices |-> NoEntry]
    /\ onvifDb = [d \in OnvifDevices |-> NoRow]
    /\ onvifLeft = 0
    /\ flips = [d \in OnvifDevices |-> 0]
    /\ writes = [d \in OnvifDevices |-> 0]
    /\ cachedAge = [d \in OnvifDevices |-> 0]
    /\ onvifAct = "init"

\* after NewAdapter: o1 was loaded by init(), o2 is not added yet
OnvifInit ==
    /\ onvifDevs = [d \in OnvifDevices |->
                      IF d = "o1" THEN [KeepaliveAge |-> ZeroTime, IsOnline |-> TRUE]
                      ELSE NoEntry]
    /\ onvifDb = [d \in OnvifDevices |-> IF d = "o1" THEN [IsOnline |-> TRUE] ELSE NoRow]
    /\ onvifLeft = MaxOnvifSteps
    /\ flips = [d \in OnvifDevices |-> 0]
    /\ writes = [d \in OnvifDevices |-> 0]
    /\ cachedAge = [d \in OnvifDevices |-> 0]
    /\ onvifAct = "init"

\* InitDevice, called once a device has been added (ids are not used twice)
InitDevice ==
    \E d \in OnvifDevices :
        /\ onvifDevs[d] = NoEntry
        /\ onvifDevs' = [onvifDevs EXCEPT ![d] = [KeepaliveAge |-> ZeroTime, IsOnline |-> TRUE]]
        /\ onvifDb' = [onvifDb EXCEPT ![d] = [IsOnline |-> TRUE]]
        /\ cachedAge' = [cachedAge EXCEPT ![d] = 0]
        /\ onvifAct' = "init_device"
        /\ UNCHANGED <<onvifLeft, flips, writes>>
        /\ UNCHANGED notOnvifVars

DeleteDevice ==
    \E d \in OnvifDevices :
        /\ Cached(onvifDevs[d])
        /\ onvifDevs' = [onvifDevs EXCEPT ![d] = Gone]
        /\ onvifDb' = [onvifDb EXCEPT ![d] = NoRow]
        /\ onvifAct' = "delete_device"
        /\ UNCHANGED <<onvifLeft, flips, writes, cachedAge>>
        /\ UNCHANGED notOnvifVars

\* sendHeartbeat succeeds between two checks
Heartbeat ==
    \E d \in OnvifDevices :
        /\ Cached(onvifDevs[d])
        /\ onvifDevs[d].KeepaliveAge # 0
        /\ onvifDevs' = [onvifDevs EXCEPT ![d].KeepaliveAge = 0]
        /\ onvifAct' = "heartbeat"
        /\ UNCHANGED <<onvifDb, onvifLeft, flips, writes, cachedAge>>
        /\ UNCHANGED notOnvifVars

\* the checker's timer fires: every cached device is checked; sendHeartbeat may
\* be writing KeepaliveAt of the devices in racing at that moment
StatusCheck ==
    \E racing \in SUBSET OnvifDevices, storeOk \in BOOLEAN :
    \E seen \in [OnvifDevices -> RacingReads] :
        /\ onvifLeft > 0
        /\ \A d \in racing : Cached(onvifDevs[d])
        /\ \A d \in OnvifDevices \ racing : seen[d] = 0
        /\ LET Out(d) == LET aged == Aged(onvifDevs[d])
                         IN  CheckDevice(aged, IF d \in racing THEN seen[d]
                                               ELSE aged.KeepaliveAge)
               after  == [d \in OnvifDevices |->
                            IF ~Cached(onvifDevs[d]) THEN onvifDevs[d]
                            ELSE IF d \in racing
                                 THEN [Out(d).dev EXCEPT !.KeepaliveAge = 0]
                                 ELSE Out(d).dev]
               wrote(d) == Cached(onvifDevs[d]) /\ Out(d).wrote
           IN  /\ onvifDevs' = after
               /\ onvifDb' = [d \in OnvifDevices |->
                                IF wrote(d)
                                THEN syncDeviceStatusToDB(onvifDb, d, Out(d).isOnline, storeOk)[d]
                                ELSE onvifDb[d]]
               /\ writes' = [d \in OnvifDevices |-> writes[d] + IF wrote(d) THEN 1 ELSE 0]
               /\ flips' = [d \in OnvifDevices |-> flips[d] + Flip(onvifDevs, after, d)]
        /\ cachedAge' = CachedFor(cachedAge, onvifDevs, CheckInterval)
        /\ onvifLeft' = onvifLeft - 1
        /\ onvifAct' = "check"
        /\ UNCHANGED notOnvifVars


\* QuietSpan seconds pass without a heartbeat; the checker's timer fires each second
QuietSeconds ==
    \E storeOk \in BOOLEAN :
        /\ onvifLeft > 0
        /\ \E d \in OnvifDevices : Cached(onvifDevs[d])
        /\ LET Out(d) == RunQuiet(onvifDevs[d])
           IN  /\ onvifDevs' = [d \in OnvifDevices |->
                                  IF Cached(onvifDevs[d]) THEN Out(d).dev ELSE onvifDevs[d]]
               /\ onvifDb' = [d \in OnvifDevices |->
                                IF Cached(onvifDevs[d]) /\ Out(d).writes > 0
                                THEN syncDeviceStatusToDB(onvifDb, d, Out(d).isOnline, storeOk)[d]
                                ELSE onvifDb[d]]
               /\ writes' = [d \in OnvifDevices |->
                               IF Cached(onvifDevs[d]) THEN writes[d] + Out(d).writes
                               ELSE writes[d]]
               /\ flips' = [d \in OnvifDevices |->
                              IF Cached(onvifDevs[d]) THEN flips[d] + Out(d).flips
                              ELSE flips[d]]
        /\ cachedAge' = CachedFor(cachedAge, onvifDevs, QuietSpan)
        /\ onvifLeft' = onvifLeft - 1
        /\ onvifAct' = "quiet"
        /\ UNCHANGED notOnvifVars

OnvifNext == InitDevice \/ DeleteDevice \/ Heartbeat \/ StatusCheck \/ QuietSeconds

(***************************************************************************)
(* Recording retention: runCleanup = markExpiringRecordings,               *)
(* cleanupExpiredRecordings, cleanupByDiskUsage. Times are in hours, sizes *)
(* in units of 50 MiB; store reads and writes succeed.                     *)
(***************************************************************************)
HoursPerDay      == 24
\* the floor of the disk sweep's target: 100 MiB
MinTarget        == 2
\* the page sizes of the two sweeps (100 and 50 rows), cut to the model's tables
ExpiredBatchSize == 2
DiskBatchSize    == 2
\* the page size of markNextDeletionCandidates
MarkPageSize     == 200
MaxRetClock      == 1
\* getDiskUsage fails
UsageError       == 0 - 1

RecIDs        == {"r1", "r2", "r3"}
SizeOf(r)     == IF r = "r2" THEN 3 ELSE 1
StartedChoices == {0 - 49, 0 - 25, 0 - 24, 0 - 23, 0 - 1}
RetainChoices == {0, 1, 2}
Thresholds    == {0, 80}
Usages        == {70, 80, 90}
FileTables    == { [r \in RecIDs |-> "file"],
                   [r \in RecIDs |-> IF r = "r1" THEN "locked" ELSE "file"],
                   [r \in RecIDs |-> IF r = "r2" THEN "missing" ELSE "file"] }
\* the orders the store may return rows of equal started_at in: by id, up or down
IdRank(r)     == CASE r = "r1" -> 1 [] r = "r2" -> 2 [] OTHER -> 3
TieOrders     == { [r \in RecIDs |-> IdRank(r)], [r \in RecIDs |-> 0 - IdRank(r)] }

Present(table) == {r \in RecIDs : table[r] # NoRow}

markExpiringRecordings_NoHour(table, conf, now) ==
    IF conf.RetainDays <= 0 THEN table
    ELSE LET expiryCutoff == now - conf.RetainDays * HoursPerDay IN
         [r \in RecIDs |->
            IF table[r] # NoRow /\ ~table[r].DeleteFlag /\ table[r].StartedAt < expiryCutoff
            THEN [table[r] EXCEPT !.DeleteFlag = TRUE]
            ELSE table[r]]

\* markExpiringRecordings
markExpiringRecordings(table, conf, now) ==
    IF conf.RetainDays <= 0 THEN table
    ELSE LET expiryCutoff == now + 1 - conf.RetainDays * HoursPerDay IN
         [r \in RecIDs |->
            IF table[r] # NoRow /\ ~table[r].DeleteFlag /\ table[r].StartedAt < expiryCutoff
            THEN [table[r] EXCEPT !.DeleteFlag = TRUE]
            ELSE table[r]]

ExpiredCutoff_Mark(conf, now) == now + 1 - conf.RetainDays * HoursPerDay

\* cleanupExpiredRecordings: cutoffTime
ExpiredCutoff(conf, now) == now - conf.RetainDays * HoursPerDay

\* os.Remove of a row's file: the file afterwards
Removed(f) == IF f = "file" THEN "missing" ELSE f

\* batchDeleteRecordings with the condition started_at < cutoff, from
\* st = [recs, files, deleted]: page after page until Find returns no row
RECURSIVE batchDeleteRecordings(_, _)
batchDeleteRecordings(st, cutoff) ==
    LET match == {r \in Present(st.recs) : st.recs[r].StartedAt < cutoff} IN
    IF match = {} THEN st
    ELSE LET page == CHOOSE p \in SUBSET match :
                        \/ p = match /\ Cardinality(match) <= ExpiredBatchSize
                        \/ Cardinality(p) = ExpiredBatchSize
         IN  batchDeleteRecordings(
                 [recs    |-> [r \in RecIDs |-> IF r \in page THEN NoRow ELSE st.recs[r]],
                  files   |-> [r \in RecIDs |-> IF r \in page THEN Removed(st.files[r])
                                                ELSE st.files[r]],
                  deleted |-> st.deleted \cup
                                {[id |-> r, StartedAt |-> st.recs[r].StartedAt,
                                  by |-> "expired", oldest |-> FALSE,
                                  batch |-> 0, afterDrop |-> FALSE, freedAtBatch |-> 0,
                                  freedBefore |-> 0] : r \in page}],
                 cutoff)

\* cleanupExpiredRecordings
cleanupExpiredRecordings(st, conf, now) ==
    IF conf.RetainDays <= 0 THEN st
    ELSE batchDeleteRecordings(st, ExpiredCutoff(conf, now))


\* ORDER BY started_at ASC, rows of equal started_at as the store returns them
Before(table, tie, a, b) ==
    \/ table[a].StartedAt < table[b].StartedAt
    \/ table[a].StartedAt = table[b].StartedAt /\ tie[a] < tie[b]

\* the first size rows of from in that order
FirstPage(table, tie, from, size) ==
    CHOOSE p \in SUBSET from :
        /\ \/ p = from /\ Cardinality(from) <= size
           \/ Cardinality(p) = size
        /\ \A a \in p, b \in from \ p : Before(table, tie, a, b)

RECURSIVE SumSize(_, _)
SumSize(table, ids) ==
    IF ids = {} THEN 0
    ELSE LET r == CHOOSE x \in ids : TRUE
         IN  table[r].Size + SumSize(table, ids \ {r})

\* markNextDeletionCandidates: the loop over the candidates, oldest first
RECURSIVE MarkLoop(_, _, _, _, _)
MarkLoop(table, tie, candidates, markedSize, targetSize) ==
    IF candidates = {} \/ markedSize >= targetSize THEN table
    ELSE LET rec == CHOOSE a \in candidates :
                       \A b \in candidates \ {a} : Before(table, tie, a, b)
         IN  MarkLoop([table EXCEPT ![rec].DeleteFlag = TRUE], tie, candidates \ {rec},
                      markedSize + table[rec].Size, targetSize)

markNextDeletionCandidates(table, tie, targetSize) ==
    IF targetSize <= 0 THEN table
    ELSE LET unmarked == {r \in Present(table) : ~table[r].DeleteFlag}
         IN  MarkLoop(table, tie, FirstPage(table, tie, unmarked, MarkPageSize), 0, targetSize)

\* cleanupByDiskUsage, the loop "for freedBytes < recentSize": st = [recs, files,
\* deleted, freed]; the usage read after batch n is below the threshold iff
\* n >= dropsAfter (afterDrop: the row went in a batch begun after such a read)
RECURSIVE DiskLoop(_, _, _, _, _)
DiskLoop(st, recentSize, tie, batchNo, dropsAfter) ==
    IF st.freed >= recentSize THEN st
    ELSE LET oldestRecordings == FirstPage(st.recs, tie, Present(st.recs), DiskBatchSize) IN
         IF oldestRecordings = {} THEN st
         ELSE LET rest == Present(st.recs) \ oldestRecordings
                  batchFreed == SumSize(st.recs, {r \in oldestRecordings :
                                                     st.files[r] # "locked"})
                  next == [recs    |-> [r \in RecIDs |-> IF r \in oldestRecordings THEN NoRow
                                                         ELSE st.recs[r]],
                           files   |-> [r \in RecIDs |-> IF r \in oldestRecordings
                                                         THEN Removed(st.files[r])
                                                         ELSE st.files[r]],
                           deleted |-> st.deleted \cup
                                         {[id |-> r, StartedAt |-> st.recs[r].StartedAt,
                                           by |-> "disk",
                                           oldest |-> \A b \in rest :
                                               st.recs[r].StartedAt <= st.recs[b].StartedAt,
                                           batch |-> batchNo,
                                           afterDrop |-> batchNo > dropsAfter,
                                           freedAtBatch |-> st.freed,
                                           freedBefore |-> st.freed + SumSize(st.recs,
                                               {q \in oldestRecordings :
                                                   /\ Before(st.recs, tie, q, r)
                                                   /\ st.files[q] # "locked"})]
                                          : r \in oldestRecordings},
                           freed   |-> st.freed + batchFreed]
              IN  IF batchNo >= dropsAfter THEN next
                  ELSE DiskLoop(next, recentSize, tie, batchNo + 1, dropsAfter)

\* whether cleanupByDiskUsage gets past its early returns
DiskSweepRuns(conf, usage) ==
    /\ ~(conf.DiskUsageThreshold <= 0 \/ conf.DiskUsageThreshold >= 100)
    /\ usage # UsageError
    /\ ~(usage < conf.DiskUsageThreshold)

cleanupByDiskUsage_NoUsageCheck(st, conf, now, usage, tie, dropsAfter) ==
    IF conf.DiskUsageThreshold <= 0 \/ conf.DiskUsageThreshold >= 100 THEN st
    ELSE LET oneHourAgo == now - 1
             recent     == SumSize(st.recs, {r \in Present(st.recs) :
                                                st.recs[r].CreatedAt >= oneHourAgo})
             recentSize == IF recent < MinTarget THEN MinTarget ELSE recent
             out        == DiskLoop([recs |-> st.recs, files |-> st.files,
                                     deleted |-> st.deleted, freed |-> 0],
                                    recentSize, tie, 1, dropsAfter)
         IN  [recs    |-> markNextDeletionCandidates(out.recs, tie, out.freed * 2),
              files   |-> out.files,
              deleted |-> out.deleted]

\* cleanupByDiskUsage: [recs, files, deleted]
cleanupByDiskUsage(st, conf, now, usage, tie, dropsAfter) ==
    IF ~DiskSweepRuns(conf, usage) THEN st
    ELSE LET oneHourAgo == now - 1
             recent     == SumSize(st.recs, {r \in Present(st.recs) :
                                                st.recs[r].CreatedAt >= oneHourAgo})
             recentSize == IF recent < MinTarget THEN MinTarget ELSE recent
             out        == DiskLoop([recs |-> st.recs, files |-> st.files,
                                     deleted |-> st.deleted, freed |-> 0],
                                    recentSize, tie, 1, dropsAfter)
         IN  [recs    |-> markNextDeletionCandidates(out.recs, tie, out.freed * 2),
              files   |-> out.files,
              deleted |-> out.deleted]

\* runCleanup
runCleanup(table, fs, conf, now, usage, tie, dropsAfter) ==
    LET marked == markExpiringRecordings(table, conf, now)
        swept  == cleanupExpiredRecordings([recs |-> marked, files |-> fs, deleted |-> {}],
                                           conf, now)
        out    == cleanupByDiskUsage(swept, conf, now, usage, tie, dropsAfter)
    IN  [recs |-> out.recs, files |-> out.files, deleted |-> out.deleted,
         swept |-> swept.recs]

NoTie == CHOOSE t \in TieOrders : TRUE

RetIdle ==
    /\ recs = [r \in RecIDs |-> NoRow]
    /\ files = [r \in RecIDs |-> "missing"]
    /\ retConf = [RetainDays |-> 0, DiskUsageThreshold |-> 0]
    /\ retNow = 0
    /\ lastPass = NoReq
    /\ retAct = "init"

\* three recordings, each with a file or the trace of one
RetInit ==
    /\ \E started \in [RecIDs -> StartedChoices] :
          recs = [r \in RecIDs |-> [StartedAt |-> started[r], CreatedAt |-> started[r],
                                    Size |-> SizeOf(r), DeleteFlag |-> FALSE]]
    /\ files \in FileTables
    /\ retConf \in [RetainDays : RetainChoices, DiskUsageThreshold : Thresholds]
    /\ retNow = 0
    /\ lastPass = NoReq
    /\ retAct = "init"

\* the cleanup worker runs one pass
RetentionPass ==
    \E usage \in Usages \cup {UsageError}, tie \in TieOrders,
       dropsAfter \in 1..(Cardinality(RecIDs) + 1) :
        /\ ~DiskSweepRuns(retConf, usage) => (tie = NoTie /\ dropsAfter = 1)
        /\ LET out == runCleanup(recs, files, retConf, retNow, usage, tie, dropsAfter) IN
           /\ recs' = out.recs
           /\ files' = out.files
           /\ lastPass' = [now |-> retNow, usage |-> usage, deleted |-> out.deleted,
                           before |-> recs, swept |-> out.swept,
                           marked |-> markExpiringRecordings(recs, retConf, retNow)]
        /\ retAct' = "pass"
        /\ UNCHANGED <<retConf, retNow>>
        /\ UNCHANGED notRetVars

\* an hour passes
RetTick ==
    /\ retNow < MaxRetClock
    /\ retNow' = retNow + 1
    /\ retAct' = "tick"
    /\ UNCHANGED <<recs, files, retConf, lastPass>>
    /\ UNCHANGED notRetVars

RetNext == RetentionPass \/ RetTick

(***************************************************************************)
(* One specification per subsystem; the other subsystems stay idle.        *)
(***************************************************************************)
(***************************************************************************)
(* Media-server nodes: NodeManager.tickCheck, Keepalive, connection.       *)
(* The clock moves in steps of the ticker's period; a Ping (timeout 2s)    *)
(* returns before the next tick, and keepalive webhooks may arrive while   *)
(* it is in flight.                                                        *)
(***************************************************************************)
KeepaliveInterval == 30
TickPeriod        == 3
MaxSmsClock       == 39

SmsServers == {"s1", "s2"}
NoServer == "none"
\* MediaServer.Type of each cached server; "srs" names no registered driver
TypeOf == [s \in SmsServers |-> IF s = "s1" THEN "" ELSE "srs"]
\* NewNodeManager registers these two drivers
Drivers == {"zlm", "lalmax"}

\* NodeManager.getDriver: the empty type means "zlm"; TRUE when a driver is found
getDriver(name) == (IF name = "" THEN "zlm" ELSE name) \in Drivers

\* connection(): the entry stored in cacheServers, IsOnline at its zero value
WarpMediaServer(now) == [IsOnline |-> FALSE, LastUpdatedAt |-> now]

\* node_manager.go:77: time.Since(ms.LastUpdatedAt) < KeepaliveInterval
FreshEnough(seen, now) == now - seen < KeepaliveInterval

\* what the unsynchronised read of LastUpdatedAt at line 77 may see: the stored
\* value, or, when Keepalive writes the field at the same time, the new value
\* or a mix of the words of both (any other time; the clock's origin here)
SeenTimes(stored, now, racing) == IF racing THEN {stored, now, 0} ELSE {stored}

\* node_manager.go:76-99 up to the Ping: "online", "offline" or "ping"
tickCheckNode(seen, now, type) ==
    IF FreshEnough(seen, now) THEN "online"
    ELSE IF getDriver(type) THEN "ping"
    ELSE "offline"

Mark(server, online, checkAge, age, pinged, pingOk) ==
    [server |-> server, online |-> online, checkAge |-> checkAge, age |-> age,
     pinged |-> pinged, pingOk |-> pingOk]

SmsIdle ==
    /\ nodes = [s \in SmsServers |-> NoEntry]
    /\ smsNow = 0
    /\ toVisit = {}
    /\ pinging = NoServer
    /\ smsLast = NoReq
    /\ smsAct = "init"
    /\ smsConnected = {}
    /\ smsHeard = {}

\* connection(): its error is that of getDriver, Connect or Setup
connection(type, connectOk) == getDriver(type) /\ connectOk

\* after Run: connection() has cached every server at time 0, before its
\* Connect, which succeeded or failed
SmsInit ==
    /\ nodes = [s \in SmsServers |-> WarpMediaServer(0)]
    /\ smsNow = 0
    /\ toVisit = {}
    /\ pinging = NoServer
    /\ smsLast = NoReq
    /\ smsAct = "init"
    /\ \E ok \in [SmsServers -> BOOLEAN] :
          smsConnected = {s \in SmsServers : connection(TypeOf[s], ok[s])}
    /\ smsHeard = {}

\* the ticker fires: a round over cacheServers begins
TickFires ==
    /\ toVisit = {}
    /\ pinging = NoServer
    /\ smsNow + TickPeriod <= MaxSmsClock
    /\ smsNow' = smsNow + TickPeriod
    /\ toVisit' = SmsServers
    /\ smsAct' = "tick"
    /\ UNCHANGED <<nodes, pinging, smsLast, smsConnected, smsHeard>>
    /\ UNCHANGED notSmsVars

\* the Range callback for one server, up to its return or to the call of Ping
VisitNode ==
    \E s \in toVisit, racing \in BOOLEAN :
    \E seen \in SeenTimes(nodes[s].LastUpdatedAt, smsNow, racing) :
        LET stored == IF racing THEN smsNow ELSE nodes[s].LastUpdatedAt
            what   == tickCheckNode(seen, smsNow, TypeOf[s])
        IN  /\ pinging = NoServer
            /\ racing => nodes[s].LastUpdatedAt # smsNow
            /\ toVisit' = toVisit \ {s}
            /\ IF what = "ping"
               THEN /\ pinging' = s
                    /\ nodes' = [nodes EXCEPT ![s].LastUpdatedAt = stored]
                    /\ smsLast' = Mark(s, FALSE, smsNow - stored, smsNow - stored, TRUE, FALSE)
                    /\ smsAct' = "ping"
               ELSE /\ pinging' = NoServer
                    /\ nodes' = [nodes EXCEPT ![s] = [IsOnline |-> what = "online",
                                                      LastUpdatedAt |-> stored]]
                    /\ smsLast' = Mark(s, what = "online", smsNow - stored, smsNow - stored,
                                      FALSE, FALSE)
                    /\ smsAct' = "mark"
            /\ smsHeard' = IF racing THEN smsHeard \cup {s} ELSE smsHeard
            /\ UNCHANGED <<smsNow, smsConnected>>
            /\ UNCHANGED notSmsVars

\* node_manager.go:87-97: the Ping returns
PingReturns ==
    \E ok \in BOOLEAN :
        /\ pinging # NoServer
        /\ nodes' = [nodes EXCEPT ![pinging] =
                        IF ok THEN [IsOnline |-> TRUE, LastUpdatedAt |-> smsNow]
                        ELSE [@ EXCEPT !.IsOnline = FALSE]]
        /\ smsLast' = Mark(pinging, ok, smsLast.checkAge,
                           smsNow - nodes[pinging].LastUpdatedAt, TRUE, ok)
        /\ pinging' = NoServer
        /\ smsAct' = "mark"
        /\ smsHeard' = IF ok THEN smsHeard \cup {pinging} ELSE smsHeard
        /\ UNCHANGED <<smsNow, toVisit, smsConnected>>
        /\ UNCHANGED notSmsVars

\* NodeManager.Keepalive: the keepalive webhook of a server
Keepalive ==
    \E s \in SmsServers :
        /\ getDriver(TypeOf[s])
        /\ nodes[s].LastUpdatedAt # smsNow
        /\ nodes' = [nodes EXCEPT ![s].LastUpdatedAt = smsNow]
        /\ smsAct' = "keepalive"
        /\ smsHeard' = smsHeard \cup {s}
        /\ UNCHANGED <<smsNow, toVisit, pinging, smsLast, smsConnected>>
        /\ UNCHANGED notSmsVars

SmsNext == TickFires \/ VisitNode \/ PingReturns \/ Keepalive

(***************************************************************************)
(* AI tasks: AIWebhookAPI.syncAITasks (one pass of the 5-minute loop),     *)
(* onStopped, StartAIDetection and StopAIDetection.                        *)
(***************************************************************************)
AiChannels == {"ch1", "ch2", "ch3"}

\* PagerFilter{Page: 1, Size: 999} of the pass's FindChannel
FindPageSize == 999

\* ipcCore.FindChannel: the first page of the channel table, or an error
FindChannel(enabled, findOk) ==
    IF findOk /\ Cardinality(DOMAIN enabled) <= FindPageSize
    THEN [ok |-> TRUE, channels |-> DOMAIN enabled]
    ELSE [ok |-> FALSE, channels |-> {}]

\* dbEnabledSet: the channels of the page with Ext.EnabledAI
dbEnabledSet(enabled, channels) == {c \in channels : enabled[c]}

StartAIDetection_Forget(tasks, c, rpcOk) == [tasks |-> tasks, err |-> ~rpcOk]

\* StartAIDetection: the task is stored only when StartCamera succeeded
StartAIDetection(tasks, c, rpcOk) ==
    IF rpcOk THEN [tasks |-> tasks \cup {c}, err |-> FALSE]
    ELSE [tasks |-> tasks, err |-> TRUE]

\* startAITask: GetMediaServer, then StartAIDetection
startAITask(tasks, c, smsOk, rpcOk) ==
    IF ~smsOk THEN [tasks |-> tasks, err |-> TRUE, called |-> FALSE]
    ELSE [tasks |-> StartAIDetection(tasks, c, rpcOk).tasks, err |-> ~rpcOk,
          called |-> TRUE]

StopAIDetection_KeepOnError(tasks, c, rpcOk) ==
    [tasks |-> IF rpcOk THEN tasks \ {c} ELSE tasks, err |-> ~rpcOk]

\* StopAIDetection: the task is deleted whether or not StopCamera succeeded
StopAIDetection(tasks, c, rpcOk) == [tasks |-> tasks \ {c}, err |-> ~rpcOk]

NoPass ==
    [phase |-> "idle", desired |-> {}, memory |-> {}, toStart |-> {}, toStop |-> {},
     started |-> {}, stopped |-> {}, revived |-> {}, skipped |-> FALSE, lookupFailed |-> FALSE,
     rpcFailed |-> FALSE, disturbed |-> FALSE]

InPass == aiPass.phase = "running"

AiIdle ==
    /\ aiDisabled = FALSE
    /\ aiEnabled = [c \in AiChannels |-> FALSE]
    /\ aiTasks = {}
    /\ aiPass = NoPass
    /\ aiReported = {}
    /\ aiAct = "init"
    /\ aiLive = {}
    /\ aiStale = {}

\* NewAIWebhookAPI: no task in memory; the channel rows carry any EnabledAI
AiInit ==
    /\ aiDisabled \in BOOLEAN
    /\ aiEnabled \in [AiChannels -> BOOLEAN]
    /\ aiTasks = {}
    /\ aiPass = NoPass
    /\ aiReported = {}
    /\ aiAct = "init"
    /\ aiLive = {}
    /\ aiStale = {}

\* syncAITasks up to its loops: the configuration check, FindChannel, the two
\* snapshots
PassBegins ==
    \E findOk \in BOOLEAN :
        LET found   == FindChannel(aiEnabled, findOk)
            desired == dbEnabledSet(aiEnabled, found.channels)
            memory  == aiTasks
            runs    == ~aiDisabled /\ found.ok
            toStart == IF runs THEN desired \ memory ELSE {}
            toStop  == IF runs THEN memory \ desired ELSE {}
        IN
        /\ ~InPass
        /\ aiDisabled => findOk
        /\ aiPass' = [NoPass EXCEPT
                        !.phase = IF toStart \cup toStop = {} THEN "done" ELSE "running",
                        !.desired = dbEnabledSet(aiEnabled, AiChannels),
                        !.memory = memory,
                        !.toStart = toStart, !.toStop = toStop,
                        !.skipped = aiDisabled,
                        !.lookupFailed = ~aiDisabled /\ ~found.ok]
        /\ aiAct' = "pass"
        /\ UNCHANGED <<aiDisabled, aiEnabled, aiTasks, aiReported, aiLive, aiStale>>
        /\ UNCHANGED notAiVars

\* one iteration of the start loop
PassStarts ==
    \E c \in aiPass.toStart, smsOk \in BOOLEAN, rpcOk \in BOOLEAN :
        LET out  == startAITask(aiTasks, c, smsOk, rpcOk)
            left == aiPass.toStart \ {c}
        IN
        /\ InPass
        /\ ~smsOk => rpcOk
        /\ aiTasks' = out.tasks
        /\ aiReported' = IF out.err THEN aiReported ELSE aiReported \ {c}
        /\ aiPass' = [aiPass EXCEPT
                        !.toStart = left,
                        !.started = IF out.err THEN @ ELSE @ \cup {c},
                        !.revived = IF out.err THEN @ ELSE @ \cup ({c} \cap aiReported),
                        !.lookupFailed = @ \/ ~smsOk,
                        !.rpcFailed = @ \/ (out.called /\ out.err),
                        !.phase = IF left \cup aiPass.toStop = {} THEN "done" ELSE @]
        /\ aiLive' = IF out.called /\ ~out.err THEN aiLive \cup {c} ELSE aiLive
        /\ aiStale' = IF ~out.called THEN aiStale
                      ELSE IF out.err THEN aiStale \cup ({c} \cap aiTasks)
                      ELSE aiStale \ {c}
        /\ aiAct' = "pass"
        /\ UNCHANGED <<aiDisabled, aiEnabled>>
        /\ UNCHANGED notAiVars

\* one iteration of the stop loop, which follows the start loop
PassStops ==
    \E c \in aiPass.toStop, rpcOk \in BOOLEAN :
        LET out  == StopAIDetection(aiTasks, c, rpcOk)
            left == aiPass.toStop \ {c}
        IN
        /\ InPass
        /\ aiPass.toStart = {}
        /\ aiTasks' = out.tasks
        /\ aiPass' = [aiPass EXCEPT
                        !.toStop = left,
                        !.stopped = IF out.err THEN @ ELSE @ \cup {c},
                        !.rpcFailed = @ \/ out.err,
                        !.phase = IF left = {} THEN "done" ELSE @]
        /\ aiLive' = aiLive \ {c}
        /\ aiStale' = aiStale \ {c}
        /\ aiAct' = "pass"
        /\ UNCHANGED <<aiDisabled, aiEnabled, aiReported>>
        /\ UNCHANGED notAiVars

\* onStopped: the detector reports that a camera's task ended
Stopped ==
    \E c \in AiChannels :
        /\ aiTasks' = aiTasks \ {c}
        /\ aiReported' = IF c \in aiTasks THEN aiReported \cup {c} ELSE aiReported
        /\ aiPass' = IF InPass THEN [aiPass EXCEPT !.disturbed = TRUE] ELSE NoPass
        /\ aiLive' = aiLive \ {c}
        /\ aiStale' = aiStale \ {c}
        /\ aiAct' = "stopped"
        /\ UNCHANGED <<aiDisabled, aiEnabled>>
        /\ UNCHANGED notAiVars

\* an operator switches a channel's AI detection on or off: the row is edited
\* and the detector is started or stopped
SetEnabledAI ==
    \E c \in AiChannels, rpcOk \in BOOLEAN :
        LET on  == ~aiEnabled[c]
            out == IF on THEN StartAIDetection(aiTasks, c, rpcOk)
                   ELSE StopAIDetection(aiTasks, c, rpcOk)
        IN
        /\ aiEnabled' = [aiEnabled EXCEPT ![c] = on]
        /\ aiTasks' = out.tasks
        /\ aiReported' = IF on /\ ~out.err THEN aiReported \ {c} ELSE aiReported
        /\ aiPass' = IF InPass THEN [aiPass EXCEPT !.disturbed = TRUE] ELSE NoPass
        /\ aiLive' = IF on THEN (IF out.err THEN aiLive ELSE aiLive \cup {c}) ELSE aiLive \ {c}
        /\ aiStale' = IF on /\ out.err THEN aiStale \cup ({c} \cap aiTasks) ELSE aiStale \ {c}
        /\ aiAct' = "set_enabled_ai"
        /\ UNCHANGED aiDisabled
        /\ UNCHANGED notAiVars

AiNext == PassBegins \/ PassStarts \/ PassStops \/ Stopped \/ SetEnabledAI

(***************************************************************************)
(* HLS playlist of a channel's recordings: generateM3U8WithToken and the   *)
(* m3u8.MediaPlaylist it drives (NewMediaPlaylist, SetDiscontinuity,       *)
(* Append, Close, String).                                                 *)
(***************************************************************************)
MaxSegments == 3

\* recordings of one channel; two of them start at the same time
HlsRecs == {"a", "b", "c", "d"}
StartedAtOf == [r \in HlsRecs |-> CASE r = "a" -> 10 [] r = "b" -> 20
                                    [] r = "c" -> 20 [] OTHER -> 30]
DurationOf  == [r \in HlsRecs |-> IF r = "d" THEN 7 ELSE 5]
Tokens == {"", "tok"}

Recording(r) ==
    [Path |-> r, StartedAt |-> StartedAtOf[r], Duration |-> DurationOf[r]]

\* lists of distinct recordings, in any order
RecordingLists ==
    UNION {{[i \in 1..n |-> Recording(f[i])] :
              f \in {g \in [1..n -> HlsRecs] : \A i, j \in 1..n : i # j => g[i] # g[j]}}
           : n \in 0..MaxSegments}

\* m3u8.NewMediaPlaylist(0, count) with MediaType = VOD
NewMediaPlaylist == [Segments |-> <<>>, Closed |-> FALSE, MediaType |-> "VOD"]

\* MediaPlaylist.SetDiscontinuity: flags the segment that is last in the
\* playlist at the time of the call; an error on an empty playlist
SetDiscontinuity(pl) ==
    IF pl.Segments = <<>> THEN pl
    ELSE [pl EXCEPT !.Segments[Len(pl.Segments)].Discontinuity = TRUE]

\* MediaPlaylist.Append(uri, duration, title)
AppendSegment(pl, uri, duration) ==
    [pl EXCEPT !.Segments =
        Append(@, [URI |-> uri, Duration |-> duration, Discontinuity |-> FALSE])]

\* MediaPlaylist.Close
ClosePlaylist(pl) == [pl EXCEPT !.Closed = TRUE]

Line(tag) == [tag |-> tag]
SegmentLines(seg) ==
    (IF seg.Discontinuity THEN <<Line("#EXT-X-DISCONTINUITY")>> ELSE <<>>)
    \o <<[tag |-> "#EXTINF", duration |-> seg.Duration], [tag |-> "uri", uri |-> seg.URI]>>

RECURSIVE AllSegmentLines(_)
AllSegmentLines(segs) ==
    IF segs = <<>> THEN <<>> ELSE SegmentLines(Head(segs)) \o AllSegmentLines(Tail(segs))

\* MediaPlaylist.String: the header, each segment with its tags before its
\* #EXTINF, and #EXT-X-ENDLIST for a closed playlist
Encode(pl) ==
    <<Line("#EXTM3U"), Line("#EXT-X-VERSION"),
      [tag |-> "#EXT-X-PLAYLIST-TYPE", value |-> pl.MediaType],
      Line("#EXT-X-MEDIA-SEQUENCE"), Line("#EXT-X-TARGETDURATION")>>
    \o AllSegmentLines(pl.Segments)
    \o (IF pl.Closed THEN <<Line("#EXT-X-ENDLIST")>> ELSE <<>>)

Swap(s, i, j) == [s EXCEPT ![i] = s[j], ![j] = s[i]]

\* the exchange sort of generateM3U8WithToken: for i, for j > i, swap when
\* s[i].StartedAt is after s[j].StartedAt
RECURSIVE SortLoop(_, _, _)
SortLoop(s, i, j) ==
    IF i >= Len(s) THEN s
    ELSE IF j > Len(s) THEN SortLoop(s, i + 1, i + 2)
    ELSE SortLoop(IF s[i].StartedAt > s[j].StartedAt THEN Swap(s, i, j) ELSE s, i, j + 1)

sortedRecs(recordings) == SortLoop(recordings, 1, 2)

Uri(path, token) == [path |-> path, token |-> token]

\* the loop over sortedRecs: SetDiscontinuity for i > 0, then Append
RECURSIVE AddSegments(_, _, _, _)
AddSegments(pl, list, i, token) ==
    IF i > Len(list) THEN pl
    ELSE LET p1 == IF i > 1 THEN SetDiscontinuity(pl) ELSE pl
         IN  AddSegments(AppendSegment(p1, Uri(list[i].Path, token), list[i].Duration),
                         list, i + 1, token)

\* generateM3U8WithToken: the empty string for no recordings
generateM3U8WithToken(recordings, token) ==
    IF Len(recordings) = 0 THEN <<>>
    ELSE Encode(ClosePlaylist(AddSegments(NewMediaPlaylist, sortedRecs(recordings), 1,
                                          token)))

HlsIdle ==
    /\ hlsIn = NoReq
    /\ hlsOut = NoReq
    /\ hlsAct = "init"

HlsInit ==
    /\ hlsIn \in [recordings : RecordingLists, token : Tokens]
    /\ hlsOut = NoReq
    /\ hlsAct = "init"

GeneratePlaylist ==
    /\ hlsAct = "init"
    /\ hlsOut' = generateM3U8WithToken(hlsIn.recordings, hlsIn.token)
    /\ hlsAct' = "playlist"
    /\ UNCHANGED hlsIn
    /\ UNCHANGED notHlsVars

HlsNext == GeneratePlaylist

(***************************************************************************)
(* PTZ: PTZAPI.ptzControl, ptzPresetControl and ptzStop, the GB28181       *)
(* adapter they reach, GB28181API.PTZControl and PTZPresetControl.         *)
(***************************************************************************)
RECURSIVE BitOr(_, _)
BitOr(a, b) ==
    IF a = 0 THEN b
    ELSE IF b = 0 THEN a
    ELSE (IF a % 2 = 1 \/ b % 2 = 1 THEN 1 ELSE 0) + 2 * BitOr(a \div 2, b \div 2)

RECURSIVE BitAnd(_, _)
BitAnd(a, b) ==
    IF a = 0 \/ b = 0 THEN 0
    ELSE (IF a % 2 = 1 /\ b % 2 = 1 THEN 1 ELSE 0) + 2 * BitAnd(a \div 2, b \div 2)

\* x << n in a byte
Shl(x, n) == (x * 2 ^ n) % 256

\* PTZDirection
PTZDirectionUp        == 0
PTZDirectionDown      == 1
PTZDirectionLeft      == 2
PTZDirectionRight     == 3
PTZDirectionUpLeft    == 4
PTZDirectionUpRight   == 5
PTZDirectionDownLeft  == 6
PTZDirectionDownRight == 7
PTZDirectionZoomIn    == 8
PTZDirectionZoomOut   == 9
PTZDirectionFocusNear == 10
PTZDirectionFocusFar  == 11
PTZDirectionIrisOpen  == 12
PTZDirectionIrisClose == 13

\* channels named in a request: a GB28181 one, an RTSP one, one not stored
PtzChannels == {"gb1", "rtsp1", "none"}
PtzTypeOf == [c \in {"gb1", "rtsp1"} |-> IF c = "gb1" THEN "GB28181" ELSE "RTSP"]
\* the adapters that are an ipc.PTZController
PTZControllers == {"GB28181"}

\* values of the JSON body
DirectionValues  == 0..14
SpeedValues      == {0, 8, 200}
HorizontalValues == {0, 20}
VerticalValues   == {0, 30}
ZoomValues       == {0, 3}
PresetCommands   == {"SetPreset", "GotoPreset", "RemovePreset", "Bad", ""}
PresetIDs        == {0, 1, 129, 255, 256}

NoWord == <<>>

PTZDirectionByte_Swapped(d) ==
    CASE d = PTZDirectionUp -> 8 [] d = PTZDirectionDown -> 4
      [] d = PTZDirectionLeft -> 2 [] d = PTZDirectionRight -> 1
      [] d = PTZDirectionUpLeft -> 9 [] d = PTZDirectionUpRight -> 10
      [] d = PTZDirectionDownLeft -> 6 [] d = PTZDirectionDownRight -> 5
      [] d = PTZDirectionZoomIn -> 16 [] d = PTZDirectionZoomOut -> 32
      [] OTHER -> 0

\* the first switch of PTZControl: ptzCmd[4]
PTZDirectionByte(d) ==
    CASE d = PTZDirectionUp -> 8 [] d = PTZDirectionDown -> 4
      [] d = PTZDirectionLeft -> 2 [] d = PTZDirectionRight -> 1
      [] d = PTZDirectionUpLeft -> 10 [] d = PTZDirectionUpRight -> 9
      [] d = PTZDirectionDownLeft -> 6 [] d = PTZDirectionDownRight -> 5
      [] d = PTZDirectionZoomIn -> 16 [] d = PTZDirectionZoomOut -> 32
      [] OTHER -> 0

\* ptzCmd[5] and ptzCmd[6]: the axis speed, or Speed, or 0
AxisSpeed(axis, speed) ==
    IF axis > 0 /\ axis <= 255 THEN axis % 256
    ELSE IF speed > 0 /\ speed <= 255 THEN speed % 256
    ELSE 0

ZoomNibble(zoom, speed) ==
    IF zoom > 0 /\ zoom <= 15 THEN BitAnd(zoom % 256, 15)
    ELSE IF speed > 0 /\ speed <= 15 THEN BitAnd(speed % 256, 15)
    ELSE 0

\* the second switch of PTZControl: ptzCmd[7]
ZoomByte(d, zoom) ==
    CASE d = PTZDirectionZoomIn -> BitOr(Shl(1, 4), zoom)
      [] d = PTZDirectionZoomOut -> BitOr(Shl(2, 4), zoom)
      [] d = PTZDirectionFocusNear -> BitOr(Shl(4, 4), zoom)
      [] d = PTZDirectionFocusFar -> BitOr(Shl(8, 4), zoom)
      [] d = PTZDirectionIrisOpen -> BitOr(Shl(3, 4), zoom)
      [] d = PTZDirectionIrisClose -> BitOr(Shl(4, 4), zoom)
      [] OTHER -> zoom

\* the 8 bytes of ptzCmd, first byte first
ControlWord(in) ==
    <<165, 15, 1, 0, PTZDirectionByte(in.Direction),
      AxisSpeed(in.Horizontal, in.Speed), AxisSpeed(in.Vertical, in.Speed),
      ZoomByte(in.Direction, ZoomNibble(in.Zoom, in.Speed))>>

\* wrapRequest: the MESSAGE goes out, or the send fails
Send(word, sendOk) ==
    IF sendOk THEN [err |-> "", sent |-> word] ELSE [err |-> "send", sent |-> NoWord]

\* GB28181API.PTZControl: [err, sent]
PTZControl(mem, in, sendOk) ==
    IF ~mem.loaded THEN [err |-> "ErrChannelNotExist", sent |-> NoWord]
    ELSE IF ~mem.online THEN [err |-> "ErrDeviceOffline", sent |-> NoWord]
    ELSE Send(ControlWord(in), sendOk)

PresetCode(command) ==
    CASE command = "SetPreset" -> 129 [] command = "GotoPreset" -> 130
      [] command = "RemovePreset" -> 131 [] OTHER -> 0

PTZPresetControl_NoOnlineCheck(mem, in, sendOk) ==
    IF ~mem.loaded THEN [err |-> "ErrChannelNotExist", sent |-> NoWord]
    ELSE IF PresetCode(in.Command) = 0 THEN [err |-> "invalid preset command", sent |-> NoWord]
    ELSE IF in.PresetID < 1 \/ in.PresetID > 255
    THEN [err |-> "preset ID must be between 1 and 255", sent |-> NoWord]
    ELSE Send(<<165, 15, 1, 0, 0, 0, in.PresetID % 256, PresetCode(in.Command)>>, sendOk)

\* GB28181API.PTZPresetControl: [err, sent]
PTZPresetControl(mem, in, sendOk) ==
    IF ~mem.loaded THEN [err |-> "ErrChannelNotExist", sent |-> NoWord]
    ELSE IF ~mem.online THEN [err |-> "ErrDeviceOffline", sent |-> NoWord]
    ELSE IF PresetCode(in.Command) = 0 THEN [err |-> "invalid preset command", sent |-> NoWord]
    ELSE IF in.PresetID < 1 \/ in.PresetID > 255
    THEN [err |-> "preset ID must be between 1 and 255", sent |-> NoWord]
    ELSE Send(<<165, 15, 1, 0, 0, 0, in.PresetID % 256, PresetCode(in.Command)>>, sendOk)

\* binding of PTZControlInput: required,min=0,max=13 on direction (required
\* refuses the zero value), min and max on the speeds
BindPTZControlInput(in) ==
    /\ in.Direction # 0 /\ in.Direction >= 0 /\ in.Direction <= 13
    /\ in.Speed >= 0 /\ in.Speed <= 255
    /\ in.Horizontal >= 0 /\ in.Horizontal <= 255
    /\ in.Vertical >= 0 /\ in.Vertical <= 255
    /\ in.Zoom >= 0 /\ in.Zoom <= 15

\* binding of PTZPresetInput: required,oneof on command; required,min=1,max=255
BindPTZPresetInput(in) ==
    /\ in.Command \in {"SetPreset", "GotoPreset", "RemovePreset"}
    /\ in.PresetID # 0 /\ in.PresetID >= 1 /\ in.PresetID <= 255

\* the three handlers up to the controller: GetChannel, GetProtocol, the
\* PTZController assertion; "" when the call goes on to the adapter
Route(channelID) ==
    IF channelID \notin DOMAIN PtzTypeOf THEN "ErrBadRequest"
    ELSE IF PtzTypeOf[channelID] \notin PTZControllers THEN "ErrBadRequest"
    ELSE ""

PtzReply(status, out) == [status |-> status, err |-> out.err, sent |-> out.sent]
Refused(status) == [status |-> status, err |-> "", sent |-> NoWord]

\* PTZAPI.ptzControl
ptzControl(mem, channelID, in, sendOk) ==
    IF ~BindPTZControlInput(in) THEN Refused("ErrBadRequest")
    ELSE IF Route(channelID) # "" THEN Refused(Route(channelID))
    ELSE LET out == PTZControl(mem, in, sendOk)
         IN  PtzReply(IF out.err = "" THEN "ok" ELSE "ErrInternalServer", out)

\* PTZAPI.ptzPresetControl
ptzPresetControl(mem, channelID, in, sendOk) ==
    IF ~BindPTZPresetInput(in) THEN Refused("ErrBadRequest")
    ELSE IF Route(channelID) # "" THEN Refused(Route(channelID))
    ELSE LET out == PTZPresetControl(mem, in, sendOk)
         IN  PtzReply(IF out.err = "" THEN "ok" ELSE "ErrInternalServer", out)

StopInput == [Direction |-> 0, Speed |-> 0, Horizontal |-> 0, Vertical |-> 0, Zoom |-> 0]

\* PTZAPI.ptzStop: PTZControl(ctx, channel, 0, 0, 0, 0, 0)
ptzStop(mem, channelID, sendOk) ==
    IF Route(channelID) # "" THEN Refused(Route(channelID))
    ELSE LET out == PTZControl(mem, StopInput, sendOk)
         IN  PtzReply(IF out.err = "" THEN "ok" ELSE "ErrInternalServer", out)

PtzIdle ==
    /\ ptzMem = [loaded |-> FALSE, online |-> FALSE]
    /\ ptzReq = NoReq
    /\ ptzOut = NoReq
    /\ ptzAct = "init"

\* the GB channel is stored; its device may have registered (loaded), and be
\* online
PtzInit ==
    /\ ptzMem \in {m \in [loaded : BOOLEAN, online : BOOLEAN] : m.online => m.loaded}
    /\ ptzReq = NoReq
    /\ ptzOut = NoReq
    /\ ptzAct = "init"

\* a send fails only where the handler reaches it; the handlers keep no state,
\* so one request is looked at per state of the device (ptzOut = NoReq)
Reaches(channelID, bound) == bound /\ Route(channelID) = "" /\ ptzMem.loaded /\ ptzMem.online

PtzControlRequest ==
    \E channelID \in PtzChannels, sendOk \in BOOLEAN,
       in \in [Direction : DirectionValues, Speed : SpeedValues,
               Horizontal : HorizontalValues, Vertical : VerticalValues,
               Zoom : ZoomValues] :
        /\ ptzOut = NoReq
        /\ ~sendOk => Reaches(channelID, BindPTZControlInput(in))
        /\ ptzReq' = [op |-> "control", channel |-> channelID, in |-> in, sendOk |-> sendOk,
                      mem |-> ptzMem]
        /\ ptzOut' = ptzControl(ptzMem, channelID, in, sendOk)
        /\ ptzAct' = "control"
        /\ UNCHANGED ptzMem
        /\ UNCHANGED notPtzVars

PtzPresetRequest ==
    \E channelID \in PtzChannels, sendOk \in BOOLEAN,
       in \in [Command : PresetCommands, PresetID : PresetIDs] :
        /\ ptzOut = NoReq
        /\ ~sendOk => Reaches(channelID, BindPTZPresetInput(in))
        /\ ptzReq' = [op |-> "preset", channel |-> channelID, in |-> in, sendOk |-> sendOk,
                      mem |-> ptzMem]
        /\ ptzOut' = ptzPresetControl(ptzMem, channelID, in, sendOk)
        /\ ptzAct' = "preset"
        /\ UNCHANGED ptzMem
        /\ UNCHANGED notPtzVars

PtzStopRequest ==
    \E channelID \in PtzChannels, sendOk \in BOOLEAN :
        /\ ptzOut = NoReq
        /\ ~sendOk => Reaches(channelID, TRUE)
        /\ ptzReq' = [op |-> "stop", channel |-> channelID, in |-> StopInput,
                      sendOk |-> sendOk, mem |-> ptzMem]
        /\ ptzOut' = ptzStop(ptzMem, channelID, sendOk)
        /\ ptzAct' = "stop"
        /\ UNCHANGED ptzMem
        /\ UNCHANGED notPtzVars

\* the device registers, unregisters or times out (registrar)
PtzDeviceStatus ==
    \E m \in [loaded : {TRUE}, online : BOOLEAN] :
        /\ m # ptzMem
        /\ ptzMem' = m
        /\ ptzReq' = NoReq
        /\ ptzOut' = NoReq
        /\ ptzAct' = "status"
        /\ UNCHANGED notPtzVars

PtzNext == PtzControlRequest \/ PtzPresetRequest \/ PtzStopRequest \/ PtzDeviceStatus

(***************************************************************************)
(* The device store behind its cache: ipccache Device.Add, Channel.Add and *)
(* Device.Del (a Session of two deletes, then the cache entry).            *)
(***************************************************************************)
DelDevices   == {"d1", "d2"}
DelChannelIDs == {"c1", "c2"}

\* where a Session can fail: in its first function, in its second, at commit
SessionOutcomes == {"ok", "fail_device", "fail_channels", "fail_commit"}

\* Storer.Device().Session(ctx, fns...): the functions run in one transaction,
\* which is rolled back when one of them or the commit fails; changed is the
\* store after all the functions
Session(db, changed, outcome) ==
    IF outcome = "ok" THEN [db |-> changed, err |-> FALSE]
    ELSE [db |-> db, err |-> TRUE]

\* db.Delete(dev)
DeleteDevice_Row(db, dev) == [db EXCEPT !.devs = @ \ {dev}]

\* tx.Model(&ipc.Channel{}).Where("did=?", dev.ID).Delete(nil)
DeleteChannelsOf(db, dev) == [db EXCEPT !.chans = {r \in @ : r[1] # dev}]

Del_CacheFirst(db, cached, dev, outcome) ==
    LET out == Session(db, DeleteChannelsOf(DeleteDevice_Row(db, dev), dev), outcome)
    IN  [db |-> out.db, cached |-> cached \ {dev}, err |-> out.err]

\* ipccache Device.Del: [db, cached, err]
Del(db, cached, dev, outcome) ==
    LET out == Session(db, DeleteChannelsOf(DeleteDevice_Row(db, dev), dev), outcome)
    IN  IF out.err THEN [db |-> db, cached |-> cached, err |-> TRUE]
        ELSE [db |-> out.db, cached |-> cached \ {dev}, err |-> FALSE]

\* ipccache Device.Add: the row, then LoadOrStore of the cache entry
Add(db, cached, dev, storeOk) ==
    IF ~storeOk THEN [db |-> db, cached |-> cached, err |-> TRUE]
    ELSE [db |-> [db EXCEPT !.devs = @ \cup {dev}], cached |-> cached \cup {dev},
          err |-> FALSE]

DelDb == [devs |-> delDevs, chans |-> delChans]

DelIdle ==
    /\ delDevs = {}
    /\ delChans = {}
    /\ delCached = {}
    /\ delLast = NoReq
    /\ delAct = "init"

DelInit == DelIdle

DeviceAdd ==
    \E dev \in DelDevices \ delDevs, storeOk \in BOOLEAN :
        LET out == Add(DelDb, delCached, dev, storeOk) IN
        /\ delDevs' = out.db.devs
        /\ delChans' = out.db.chans
        /\ delCached' = out.cached
        /\ delLast' = NoReq
        /\ delAct' = "add"
        /\ UNCHANGED notDelVars

\* ipccache Channel.Add for a channel of a stored device
ChannelAdd ==
    \E dev \in delDevs, ch \in DelChannelIDs :
        /\ <<dev, ch>> \notin delChans
        /\ delChans' = delChans \cup {<<dev, ch>>}
        /\ delLast' = NoReq
        /\ delAct' = "add_channel"
        /\ UNCHANGED <<delDevs, delCached>>
        /\ UNCHANGED notDelVars

\* the process restarts: the cache is empty until devices are loaded again
CacheLost ==
    /\ delCached # {}
    /\ delCached' = {}
    /\ delLast' = NoReq
    /\ delAct' = "restart"
    /\ UNCHANGED <<delDevs, delChans>>
    /\ UNCHANGED notDelVars

DeviceDel ==
    \E dev \in delDevs, outcome \in SessionOutcomes :
        LET out == Del(DelDb, delCached, dev, outcome) IN
        /\ delDevs' = out.db.devs
        /\ delChans' = out.db.chans
        /\ delCached' = out.cached
        /\ delLast' = [dev |-> dev, outcome |-> outcome, err |-> out.err,
                       devs |-> delDevs, chans |-> delChans, cached |-> delCached]
        /\ delAct' = "del"
        /\ UNCHANGED notDelVars

DelNext == DeviceAdd \/ ChannelAdd \/ CacheLost \/ DeviceDel

(***************************************************************************)
(* The batch loops of batchDeleteRecordings and cleanupExpiredEvents, one  *)
(* iteration per step: Find page 1, remove the files, delete the rows.     *)
(***************************************************************************)
SweepIDs      == {1, 2, 3}
SweepKinds    == {"recordings", "events"}
\* the page size of the loops (100 rows), cut to the model's tables
SweepBatchSize == 2
MaxSweepIter  == 3
SweepDbModes  == {"ok", "delete_fails", "find_fails"}

\* Find with PagerFilter{Page: 1, Size: batchSize}: the first rows that match
SweepPageOf(rows) ==
    IF Cardinality(rows) <= SweepBatchSize THEN rows
    ELSE CHOOSE p \in SUBSET rows :
            /\ Cardinality(p) = SweepBatchSize
            /\ \A a \in p, b \in rows \ p : a < b

\* the loop is left without a delete: Find failed or returned no row
SweepBreaks(rows, db) == db = "find_fails" \/ rows = {}

\* one iteration of batchDeleteRecordings past its break: every file of the page
\* is removed if it can be, every id of the page goes into the batch delete,
\* and a failed batch delete is only not counted
batchDeleteIteration(rows, fs, db) ==
    LET page == SweepPageOf(rows) IN
    [rows  |-> IF db = "ok" THEN rows \ page ELSE rows,
     files |-> [r \in SweepIDs |-> IF r \in page THEN Removed(fs[r]) ELSE fs[r]],
     break |-> FALSE]

\* one iteration of cleanupExpiredEvents past its breaks: the images of the page
\* are removed, a failed batch delete is logged
cleanupExpiredEventsIteration(rows, fs, db) ==
    LET page == SweepPageOf(rows) IN
    [rows  |-> IF db = "ok" THEN rows \ page ELSE rows,
     files |-> [r \in SweepIDs |-> IF r \in page THEN Removed(fs[r]) ELSE fs[r]],
     break |-> FALSE]

SweepIdle ==
    /\ swKind = "recordings"
    /\ swRows = {}
    /\ swFiles = [r \in SweepIDs |-> "missing"]
    /\ swDb = "ok"
    /\ swPhase = "idle"
    /\ swIter = 0
    /\ swAct = "init"

\* any finite table, any files, the store in one of its modes for the pass
SweepInit ==
    /\ swKind \in SweepKinds
    /\ swRows \in SUBSET SweepIDs
    /\ swFiles \in [SweepIDs -> {"file", "locked", "missing"}]
    /\ swDb \in SweepDbModes
    /\ swPhase = "idle"
    /\ swIter = 0
    /\ swAct = "init"

\* the worker calls the cleanup
SweepStarts ==
    /\ swPhase = "idle"
    /\ swPhase' = "running"
    /\ swAct' = "start"
    /\ UNCHANGED <<swKind, swRows, swFiles, swDb, swIter>>
    /\ UNCHANGED notSweepVars

\* an iteration that finds a page and works on it
SweepIteration ==
    /\ swPhase = "running"
    /\ ~SweepBreaks(swRows, swDb)
    /\ LET out == IF swKind = "recordings"
                  THEN batchDeleteIteration(swRows, swFiles, swDb)
                  ELSE cleanupExpiredEventsIteration(swRows, swFiles, swDb)
       IN  /\ swRows' = out.rows
           /\ swFiles' = out.files
           /\ swPhase' = IF out.break THEN "done" ELSE "running"
    /\ swIter' = IF swIter < MaxSweepIter THEN swIter + 1 ELSE swIter
    /\ swAct' = "iteration"
    /\ UNCHANGED <<swKind, swDb>>
    /\ UNCHANGED notSweepVars

\* the iteration whose Find fails or returns no row: break
SweepEnds ==
    /\ swPhase = "running"
    /\ SweepBreaks(swRows, swDb)
    /\ swPhase' = "done"
    /\ swAct' = "break"
    /\ UNCHANGED <<swKind, swRows, swFiles, swDb, swIter>>
    /\ UNCHANGED notSweepVars

SweepNext == SweepStarts \/ SweepIteration \/ SweepEnds

(***************************************************************************)
(* The login key pair: Secret.GetOrCreatePublicKey and Secret.Decrypt, one *)
(* step per critical section. Key pairs are numbered in order of creation. *)
(***************************************************************************)
KeyCallers == {"p1", "p2"}
MaxKeys    == 3
NoKey      == 0

\* the read-locked test of GetOrCreatePublicKey: the stored key is returned
KeyValid(cur, expired) == cur # NoKey /\ cur \notin expired

\* the write-locked part of GetOrCreatePublicKey: a new pair replaces the stored
\* one, whatever is stored by now
GenerateKey(cur, expired) == cur + 1

\* Secret.Decrypt of a text encrypted with public key number held: the stored
\* private key opens it only if it is of the same pair
Decrypt(cur, held) == cur # NoKey /\ cur = held

KeyIdle ==
    /\ keyCur = NoKey
    /\ keyExpired = {}
    /\ keyPc = [p \in KeyCallers |-> "idle"]
    /\ keyHeld = [p \in KeyCallers |-> NoKey]
    /\ keyDec = NoReq
    /\ keyAct = "init"

\* NewUserAPI: an empty Secret
KeyInit == KeyIdle

\* GetOrCreatePublicKey up to RUnlock: the key is returned, or the caller goes
\* on to take the write lock
KeyRead ==
    \E p \in KeyCallers :
        /\ keyPc[p] = "idle"
        /\ IF KeyValid(keyCur, keyExpired)
           THEN /\ keyHeld' = [keyHeld EXCEPT ![p] = keyCur]
                /\ UNCHANGED keyPc
           ELSE /\ keyCur < MaxKeys
                /\ keyPc' = [keyPc EXCEPT ![p] = "locking"]
                /\ UNCHANGED keyHeld
        /\ keyAct' = "read"
        /\ UNCHANGED <<keyCur, keyExpired, keyDec>>
        /\ UNCHANGED notKeyVars

\* GetOrCreatePublicKey from Lock to its return
KeyCreate ==
    \E p \in KeyCallers :
        /\ keyPc[p] = "locking"
        /\ keyCur < MaxKeys
        /\ keyCur' = GenerateKey(keyCur, keyExpired)
        /\ keyHeld' = [keyHeld EXCEPT ![p] = keyCur']
        /\ keyPc' = [keyPc EXCEPT ![p] = "idle"]
        /\ keyAct' = "create"
        /\ UNCHANGED <<keyExpired, keyDec>>
        /\ UNCHANGED notKeyVars

\* the hour of the stored key runs out
KeyExpires ==
    /\ keyCur # NoKey
    /\ keyCur \notin keyExpired
    /\ keyExpired' = keyExpired \cup {keyCur}
    /\ keyAct' = "expire"
    /\ UNCHANGED <<keyCur, keyPc, keyHeld, keyDec>>
    /\ UNCHANGED notKeyVars

\* a caller logs in: Decrypt of what it encrypted with the key it was given
KeyDecrypt ==
    \E p \in KeyCallers :
        /\ keyPc[p] = "idle"
        /\ keyHeld[p] # NoKey
        /\ keyDec' = [caller |-> p, held |-> keyHeld[p],
                      ok |-> Decrypt(keyCur, keyHeld[p])]
        /\ keyAct' = "decrypt"
        /\ UNCHANGED <<keyCur, keyExpired, keyPc, keyHeld>>
        /\ UNCHANGED notKeyVars

KeyNext == KeyRead \/ KeyCreate \/ KeyExpires \/ KeyDecrypt

(***************************************************************************)
(* The legacy stream migration: MigrateStreamData over stream_pushs and    *)
(* stream_proxys. Ids of the unique-id generator are numbers, each new.    *)
(***************************************************************************)
MaxLegacyRows  == 2
MaxMigRuns     == 2

\* the rows a legacy table may hold; the flag is Status = "PUSHING" or Pulling
LegacyRows == [App : {"live"}, Stream : {"s1", "s2"}, Live : BOOLEAN]
LegacyTables == UNION {[1..n -> LegacyRows] : n \in 0..MaxLegacyRows}

\* uni.UniqueID: an id that was never given out before
UniqueID(next) == next

\* db.FirstOrCreate(device, "device_id = ?", device.DeviceID)
FirstOrCreate(devs, dev) ==
    IF \E d \in devs : d.DeviceID = dev.DeviceID THEN devs ELSE devs \cup {dev}

\* Where("app = ? AND stream = ?").First(&existing) finds a row
ChannelExists(cs, p) == \E c \in cs : c.App = p.App /\ c.Stream = p.Stream

MigratedChannel(id, did, type, p) ==
    [ID |-> id, DID |-> did, DeviceID |-> did, ChannelID |-> id, Type |-> type,
     App |-> p.App, Stream |-> p.Stream, IsOnline |-> p.Live]

\* the loop over the rows of one legacy table: a row whose (app, stream) is
\* stored already is skipped, any other becomes a channel of the virtual device
RECURSIVE MigrateRows(_, _, _, _, _, _)
MigrateRows(cs, rows, i, did, type, next) ==
    IF i > Len(rows) THEN [cs |-> cs, next |-> next]
    ELSE IF ChannelExists(cs, rows[i])
    THEN MigrateRows(cs, rows, i + 1, did, type, next)
    ELSE MigrateRows(cs \cup {MigratedChannel(UniqueID(next), did, type, rows[i])},
                     rows, i + 1, did, type, next + 1)

VirtualDevice(id, type) == [ID |-> id, DeviceID |-> id, Type |-> type]

\* MigrateStreamData: [devices, channels, next, err]; pushFindOk and proxyFindOk
\* are the outcomes of the two Find calls on the legacy tables
MigrateStreamData(legacy, devs, cs, next, pushFindOk, proxyFindOk) ==
    IF ~legacy.hasPushs /\ ~legacy.hasProxys
    THEN [devices |-> devs, channels |-> cs, next |-> next, err |-> FALSE]
    ELSE LET rtmpID == UniqueID(next)
             next1  == IF legacy.hasPushs THEN next + 1 ELSE next
             devs1  == IF legacy.hasPushs
                       THEN FirstOrCreate(devs, VirtualDevice(rtmpID, "RTMP")) ELSE devs
             rtspID == UniqueID(next1)
             next2  == IF legacy.hasProxys THEN next1 + 1 ELSE next1
             devs2  == IF legacy.hasProxys
                       THEN FirstOrCreate(devs1, VirtualDevice(rtspID, "RTSP")) ELSE devs1
         IN  IF legacy.hasPushs /\ ~pushFindOk
             THEN [devices |-> devs2, channels |-> cs, next |-> next2, err |-> TRUE]
             ELSE LET pushed == IF legacy.hasPushs
                                THEN MigrateRows(cs, legacy.pushs, 1, rtmpID, "RTMP", next2)
                                ELSE [cs |-> cs, next |-> next2]
                  IN  IF legacy.hasProxys /\ ~proxyFindOk
                      THEN [devices |-> devs2, channels |-> pushed.cs,
                            next |-> pushed.next, err |-> TRUE]
                      ELSE LET proxied == IF legacy.hasProxys
                                          THEN MigrateRows(pushed.cs, legacy.proxys, 1,
                                                           rtspID, "RTSP", pushed.next)
                                          ELSE pushed
                           IN  [devices |-> devs2, channels |-> proxied.cs,
                                next |-> proxied.next, err |-> FALSE]

MigIdle ==
    /\ migLegacy = [hasPushs |-> FALSE, hasProxys |-> FALSE, pushs |-> <<>>, proxys |-> <<>>]
    /\ migDevices = {}
    /\ migChannels = {}
    /\ migNextID = 1
    /\ migDone = FALSE
    /\ migLast = NoReq
    /\ migAct = "init"

\* a store from before the migration: any legacy tables, no device, no channel
MigInit ==
    /\ \E hasPushs \in BOOLEAN, hasProxys \in BOOLEAN,
          pushs \in LegacyTables, proxys \in LegacyTables :
          /\ ~hasPushs => pushs = <<>>
          /\ ~hasProxys => proxys = <<>>
          /\ migLegacy = [hasPushs |-> hasPushs, hasProxys |-> hasProxys,
                          pushs |-> pushs, proxys |-> proxys]
    /\ migDevices = {}
    /\ migChannels = {}
    /\ migNextID = 1
    /\ migDone = FALSE
    /\ migLast = NoReq
    /\ migAct = "init"

\* the program starts and runs the migration
Migrate ==
    \E pushFindOk \in BOOLEAN, proxyFindOk \in BOOLEAN :
        LET out == MigrateStreamData(migLegacy, migDevices, migChannels, migNextID,
                                     pushFindOk, proxyFindOk)
        IN
        /\ (IF migLast = NoReq THEN 0 ELSE migLast.run) < MaxMigRuns
        /\ ~pushFindOk => migLegacy.hasPushs
        /\ ~proxyFindOk => (migLegacy.hasProxys /\ pushFindOk)
        /\ migDevices' = out.devices
        /\ migChannels' = out.channels
        /\ migNextID' = out.next
        /\ migDone' = (migDone \/ ~out.err)
        /\ migLast' = [run |-> IF migLast = NoReq THEN 1 ELSE migLast.run + 1,
                       err |-> out.err, again |-> migDone,
                       devices |-> migDevices, channels |-> migChannels]
        /\ migAct' = "migrate"
        /\ UNCHANGED migLegacy
        /\ UNCHANGED notMigVars

MigNext == Migrate

(***************************************************************************)
(* The frame capture: captureLoop reads frames from ffmpeg, counts them    *)
(* and hands them to FrameCh without waiting; GetFrame takes them out.     *)
(***************************************************************************)
FrameChCap == 2
ErrChCap   == 1
MaxFrames  == 4

\* the positions of captureLoop
CapturePcs == {"none", "top", "read", "onframe", "select", "exited"}

SelectCases_NoDefault(queued, cancelled) ==
    {c \in {"send"} : queued < FrameChCap} \cup {c \in {"done"} : cancelled}

\* the select that hands the frame over: the cases that are ready, and the
\* default case when none is
SelectCases(queued, cancelled) ==
    LET ready == {c \in {"send"} : queued < FrameChCap} \cup {c \in {"done"} : cancelled}
    IN  IF ready = {} THEN {"default"} ELSE ready

\* select { case errCh <- err: default: }
TrySendErr(queued) == IF queued < ErrChCap THEN queued + 1 ELSE queued

NoStats == [none |-> TRUE]

FcIdle ==
    /\ fcStarted = FALSE
    /\ fcCancelled = FALSE
    /\ fcPc = "none"
    /\ fcFrameCh = <<>>
    /\ fcErrCh = 0
    /\ fcFrameCount = 0
    /\ fcSkipCount = 0
    /\ fcDelivered = 0
    /\ fcClosed = 0
    /\ fcStats = NoStats
    /\ fcAct = "init"

\* NewFrameCapture
FcInit == FcIdle

\* Start: refused when started already; ffmpeg may fail to start
Start ==
    \E startOk \in BOOLEAN :
        /\ fcStarted' = (fcStarted \/ startOk)
        /\ fcPc' = IF ~fcStarted /\ startOk THEN "top" ELSE fcPc
        /\ fcAct' = "start"
        /\ UNCHANGED <<fcCancelled, fcFrameCh, fcErrCh, fcFrameCount, fcSkipCount,
                       fcDelivered, fcClosed, fcStats>>
        /\ UNCHANGED notFcVars

\* Stop: cancels the context of a started capture
Stop ==
    /\ fcCancelled' = (fcCancelled \/ fcStarted)
    /\ fcAct' = "stop"
    /\ UNCHANGED <<fcStarted, fcPc, fcFrameCh, fcErrCh, fcFrameCount, fcSkipCount,
                   fcDelivered, fcClosed, fcStats>>
    /\ UNCHANGED notFcVars

\* captureLoop, the test of ctx.Done at the top of the loop
CaptureTop ==
    /\ fcPc = "top"
    /\ fcPc' = IF fcCancelled THEN "exited" ELSE "read"
    /\ fcClosed' = IF fcCancelled THEN fcClosed + 1 ELSE fcClosed
    /\ fcAct' = "top"
    /\ UNCHANGED <<fcStarted, fcCancelled, fcFrameCh, fcErrCh, fcFrameCount,
                   fcSkipCount, fcDelivered, fcStats>>
    /\ UNCHANGED notFcVars

\* captureLoop, io.ReadFull: a whole frame, which is counted, or an error,
\* which is offered to errCh and ends the loop
CaptureRead ==
    \E readOk \in BOOLEAN :
        /\ fcPc = "read"
        /\ readOk => fcFrameCount < MaxFrames
        /\ fcPc' = IF readOk THEN "onframe" ELSE "exited"
        /\ fcFrameCount' = IF readOk THEN fcFrameCount + 1 ELSE fcFrameCount
        /\ fcErrCh' = IF readOk THEN fcErrCh ELSE TrySendErr(fcErrCh)
        /\ fcClosed' = IF readOk THEN fcClosed ELSE fcClosed + 1
        /\ fcAct' = "read"
        /\ UNCHANGED <<fcStarted, fcCancelled, fcFrameCh, fcSkipCount, fcDelivered,
                       fcStats>>
        /\ UNCHANGED notFcVars

\* captureLoop, lastFrame is stored under the mutex that GetStats holds, and
\* the OnFrame callback returns
CaptureOnFrame ==
    /\ fcPc = "onframe"
    /\ IF fcStats = NoStats THEN TRUE ELSE ~fcStats.loading
    /\ fcPc' = "select"
    /\ fcAct' = "onframe"
    /\ UNCHANGED <<fcStarted, fcCancelled, fcFrameCh, fcErrCh, fcFrameCount,
                   fcSkipCount, fcDelivered, fcClosed, fcStats>>
    /\ UNCHANGED notFcVars

\* captureLoop, the select that hands the frame to FrameCh
CaptureSelect ==
    \E c \in SelectCases(Len(fcFrameCh), fcCancelled) :
        /\ fcPc = "select"
        /\ fcFrameCh' = IF c = "send" THEN Append(fcFrameCh, fcFrameCount) ELSE fcFrameCh
        /\ fcDelivered' = IF c = "send" THEN fcDelivered + 1 ELSE fcDelivered
        /\ fcSkipCount' = IF c = "default" THEN fcSkipCount + 1 ELSE fcSkipCount
        /\ fcPc' = IF c = "done" THEN "exited" ELSE "top"
        /\ fcClosed' = IF c = "done" THEN fcClosed + 1 ELSE fcClosed
        /\ fcAct' = c
        /\ UNCHANGED <<fcStarted, fcCancelled, fcErrCh, fcFrameCount, fcStats>>
        /\ UNCHANGED notFcVars

\* GetFrame takes a frame from FrameCh or an error from errCh
GetFrame ==
    \E from \in {"FrameCh", "errCh"} :
        /\ from = "FrameCh" => fcFrameCh # <<>>
        /\ from = "errCh" => fcErrCh > 0
        /\ fcFrameCh' = IF from = "FrameCh" THEN Tail(fcFrameCh) ELSE fcFrameCh
        /\ fcErrCh' = IF from = "errCh" THEN fcErrCh - 1 ELSE fcErrCh
        /\ fcAct' = "getframe"
        /\ UNCHANGED <<fcStarted, fcCancelled, fcPc, fcFrameCount, fcSkipCount,
                       fcDelivered, fcClosed, fcStats>>
        /\ UNCHANGED notFcVars

\* GetStats loads frameCount and then skipCount
GetStats ==
    /\ fcStats' = IF fcStats # NoStats /\ fcStats.loading
                  THEN [loading |-> FALSE, FrameCount |-> fcStats.FrameCount,
                        SkipCount |-> fcSkipCount]
                  ELSE [loading |-> TRUE, FrameCount |-> fcFrameCount, SkipCount |-> 0]
    /\ fcAct' = "getstats"
    /\ UNCHANGED <<fcStarted, fcCancelled, fcPc, fcFrameCh, fcErrCh, fcFrameCount,
                   fcSkipCount, fcDelivered, fcClosed>>
    /\ UNCHANGED notFcVars

FcNext ==
    \/ Start
    \/ Stop
    \/ CaptureTop
    \/ CaptureRead
    \/ CaptureOnFrame
    \/ CaptureSelect
    \/ GetFrame
    \/ GetStats

InitRegister == RegInit /\ PubIdle /\ CatIdle /\ OnvifIdle /\ RetIdle /\ SmsIdle /\ AiIdle /\ HlsIdle /\ PtzIdle /\ DelIdle /\ SweepIdle /\ KeyIdle /\ MigIdle /\ FcIdle
SpecRegister == InitRegister /\ [][RegNext]_vars

InitPublish == PubInit /\ RegIdle /\ CatIdle /\ OnvifIdle /\ RetIdle /\ SmsIdle /\ AiIdle /\ HlsIdle /\ PtzIdle /\ DelIdle /\ SweepIdle /\ KeyIdle /\ MigIdle /\ FcIdle
SpecPublish == InitPublish /\ [][PubNext]_vars

SpecPull == InitPublish /\ [][PullNext]_vars

InitCatalog == CatInit /\ RegIdle /\ PubIdle /\ OnvifIdle /\ RetIdle /\ SmsIdle /\ AiIdle /\ HlsIdle /\ PtzIdle /\ DelIdle /\ SweepIdle /\ KeyIdle /\ MigIdle /\ FcIdle
SpecCatalog == InitCatalog /\ [][CatNext]_vars

InitMerge == MergeInit /\ RegIdle /\ PubIdle /\ OnvifIdle /\ RetIdle /\ SmsIdle /\ AiIdle /\ HlsIdle /\ PtzIdle /\ DelIdle /\ SweepIdle /\ KeyIdle /\ MigIdle /\ FcIdle
SpecMerge == InitMerge /\ [][Emit]_vars

InitOnvif == OnvifInit /\ RegIdle /\ PubIdle /\ CatIdle /\ RetIdle /\ SmsIdle /\ AiIdle /\ HlsIdle /\ PtzIdle /\ DelIdle /\ SweepIdle /\ KeyIdle /\ MigIdle /\ FcIdle
SpecOnvif == InitOnvif /\ [][OnvifNext]_vars

InitRetention == RetInit /\ RegIdle /\ PubIdle /\ CatIdle /\ OnvifIdle /\ SmsIdle /\ AiIdle /\ HlsIdle /\ PtzIdle /\ DelIdle /\ SweepIdle /\ KeyIdle /\ MigIdle /\ FcIdle
SpecRetention == InitRetention /\ [][RetNext]_vars

InitSms == SmsInit /\ RegIdle /\ PubIdle /\ CatIdle /\ OnvifIdle /\ RetIdle /\ AiIdle /\ HlsIdle /\ PtzIdle /\ DelIdle /\ SweepIdle /\ KeyIdle /\ MigIdle /\ FcIdle
SpecSms == InitSms /\ [][SmsNext]_vars

InitAi == AiInit /\ RegIdle /\ PubIdle /\ CatIdle /\ OnvifIdle /\ RetIdle /\ SmsIdle /\ HlsIdle /\ PtzIdle /\ DelIdle /\ SweepIdle /\ KeyIdle /\ MigIdle /\ FcIdle
SpecAi == InitAi /\ [][AiNext]_vars

InitHls == HlsInit /\ RegIdle /\ PubIdle /\ CatIdle /\ OnvifIdle /\ RetIdle /\ SmsIdle /\ AiIdle /\ PtzIdle /\ DelIdle /\ SweepIdle /\ KeyIdle /\ MigIdle /\ FcIdle
SpecHls == InitHls /\ [][HlsNext]_vars

InitPtz == PtzInit /\ RegIdle /\ PubIdle /\ CatIdle /\ OnvifIdle /\ RetIdle /\ SmsIdle /\ AiIdle /\ HlsIdle /\ DelIdle /\ SweepIdle /\ KeyIdle /\ MigIdle /\ FcIdle
SpecPtz == InitPtz /\ [][PtzNext]_vars

InitDel == DelInit /\ RegIdle /\ PubIdle /\ CatIdle /\ OnvifIdle /\ RetIdle /\ SmsIdle /\ AiIdle /\ HlsIdle /\ PtzIdle /\ SweepIdle /\ KeyIdle /\ MigIdle /\ FcIdle
SpecDel == InitDel /\ [][DelNext]_vars

InitSweep == SweepInit /\ RegIdle /\ PubIdle /\ CatIdle /\ OnvifIdle /\ RetIdle /\ SmsIdle /\ AiIdle /\ HlsIdle /\ PtzIdle /\ DelIdle /\ KeyIdle /\ MigIdle /\ FcIdle
SpecSweep == InitSweep /\ [][SweepNext]_vars
\* the worker goroutine keeps running: a loop that can take a step takes it
SpecSweepLive == InitSweep /\ [][SweepNext]_vars /\ WF_vars(SweepNext)

InitKey == KeyInit /\ RegIdle /\ PubIdle /\ CatIdle /\ OnvifIdle /\ RetIdle /\ SmsIdle /\ AiIdle /\ HlsIdle /\ PtzIdle /\ DelIdle /\ SweepIdle /\ MigIdle /\ FcIdle
SpecKey == InitKey /\ [][KeyNext]_vars

InitMig == MigInit /\ RegIdle /\ PubIdle /\ CatIdle /\ OnvifIdle /\ RetIdle /\ SmsIdle /\ AiIdle /\ HlsIdle /\ PtzIdle /\ DelIdle /\ SweepIdle /\ KeyIdle /\ FcIdle
SpecMig == InitMig /\ [][MigNext]_vars

InitFc == FcInit /\ RegIdle /\ PubIdle /\ CatIdle /\ OnvifIdle /\ RetIdle /\ SmsIdle /\ AiIdle /\ HlsIdle /\ PtzIdle /\ DelIdle /\ SweepIdle /\ KeyIdle /\ MigIdle
SpecFc == InitFc /\ [][FcNext]_vars

(***************************************************************************)
(* Registrar claims.                                                       *)
(***************************************************************************)

\* What the specification calls a conforming id: 18 to 20 characters, all numeric
\* (a Unicode number counts as numeric here, the reading most favourable to the code).
ClaimConforming(id) ==
    /\ Len(RunesOf(id)) \in 18..20
    /\ \A i \in 1..Len(RunesOf(id)) : IsNumber(RunesOf(id)[i])

\* The request is one that the step just taken handled.
JustHandled == regAct = "register" /\ req # NoReq

\* The row the handler works on for r: the stored one, or the one it would create.
RowFor(devs, r) == IF devs[r.id] = NoRow THEN NewRow ELSE devs[r.id]

\* r carries an Authorization whose digest matches the password in force (one is in force).
MatchingDigest(devs, cfg, r) ==
    /\ r.hasAuth
    /\ EffectivePassword(RowFor(devs, r), cfg) # ""
    /\ AuthResponse(r) = ExpectedResponse(r, EffectivePassword(RowFor(devs, r), cfg))

\* r carries an Authorization whose digest does not match the password in force.
WrongDigest(devs, cfg, r) ==
    /\ r.hasAuth
    /\ EffectivePassword(RowFor(devs, r), cfg) # ""
    /\ AuthResponse(r) # ExpectedResponse(r, EffectivePassword(RowFor(devs, r), cfg))

\* C1: a REGISTER whose device id is shorter than 18 characters, longer than 20
\* characters or not all numeric is answered 400, and neither the device rows nor the
\* device cache change.
C1_NonConformingIdRejectedStateless ==
    [][(regAct' = "register" /\ ~ClaimConforming(req'.id))
         => (trace' = <<Resp(400, "none")>> /\ devices' = devices /\ cache' = cache)]_regVars

\* C2: a REGISTER with a conforming id whose digest does not match the device's
\* password is answered 401 and leaves the device rows and the device cache exactly
\* as they were.
C2_WrongDigestLeavesStateUnchanged ==
    [][(regAct' = "register" /\ ClaimConforming(req'.id) /\ req'.store = "ok"
          /\ WrongDigest(devices, cfgPassword, req'))
         => (trace'[1][2] = 401 /\ devices' = devices /\ cache' = cache)]_regVars

\* C3: when a password is in force, a REGISTER is accepted (200, device online) only
\* if its nonce was issued by the registrar in a 401 challenge at most 30 seconds
\* earlier.
C3_AcceptedOnlyWithIssuedFreshNonce ==
    (/\ JustHandled
     /\ trace[1] = Resp(200, "Date")
     /\ devices[req.id] # NoRow
     /\ devices[req.id].IsOnline
     /\ EffectivePassword(devices[req.id], cfgPassword) # "")
    => (/\ req.hasAuth
        /\ req.nonce \in ServerNonces
        /\ issued[req.nonce] # Never
        /\ regNow - issued[req.nonce] <= NonceWindow)

\* The number of seconds an Expires header of the requests tried stands for.
ExpiresSeconds == [e \in {<<"6", "0">>} |-> 60]

IsQuery(e) == e[1] = "query"

PublishHandled == pubAct = "on_publish"

\* the channel the stream of the last on_publish resolves to (NoChannel = none)
Resolved == IF pubReq.stream \in RtmpStreams THEN chans[pubReq.stream] ELSE NoChannel

\* params["sign"] of the last on_publish (empty when the params carry none)
SignOf == IF pubReq.params.malformed THEN Plain("") ELSE pubReq.params.sign

\* C4: on_publish replies code 0 if and only if the resolved channel has
\* IsAuthDisabled or params["sign"] equals MD5(RTMPSecret).
C4_AcceptIffAuthDisabledOrSign ==
    PublishHandled =>
        (pubResp.code = 0
            <=> ((Resolved # NoChannel /\ Resolved.IsAuthDisabled)
                 \/ SignOf = MD5(RTMPSecret)))

(***************************************************************************)
(* Catalog claims.                                                         *)
(***************************************************************************)
EmitHandled == catAct = "emit"

RowsFor(rows, deviceID, channelID) ==
    {i \in DOMAIN rows : rows[i].DeviceID = deviceID /\ rows[i].ChannelID = channelID}

\* the postcondition of a merge of report R (lastEmit.list) over table S (lastEmit.before)
MergePost ==
    LET d == lastEmit.device
        R == ToChannels(d, lastEmit.list)
        S == lastEmit.before
    IN  /\ \A i \in DOMAIN R :
              /\ RowsFor(chanRows, d, R[i].ChannelID) # {}
              /\ \A j \in RowsFor(chanRows, d, R[i].ChannelID) :
                    chanRows[j].IsOnline = R[i].IsOnline
        /\ \A k \in DOMAIN S :
              (S[k].DeviceID = d /\ S[k].ChannelID \notin IdsOf(lastEmit.list)) =>
                  /\ RowsFor(chanRows, d, S[k].ChannelID) # {}
                  /\ \A j \in RowsFor(chanRows, d, S[k].ChannelID) : ~chanRows[j].IsOnline
        /\ Len(chanRows) >= Len(S)
        /\ \A k \in DOMAIN S :
              /\ chanRows[k].DeviceID = S[k].DeviceID
              /\ chanRows[k].ChannelID = S[k].ChannelID

C7_WritesOnlyOnFlips ==
    \A d \in OnvifDevices : writes[d] = flips[d]

\* a device went offline and online again: two flips, two writes
C7_Witness ==
    /\ onvifAct = "check"
    /\ \E d \in OnvifDevices :
          /\ Cached(onvifDevs[d])
          /\ onvifDevs[d].IsOnline
          /\ flips[d] = 2
          /\ writes[d] = 2

(***************************************************************************)
(* Retention claims.                                                       *)
(***************************************************************************)
PassHandled == retAct = "pass"

\* C8: a row the pass deleted either has started_at < now - retainDays, or was
\* taken by the disk sweep when no remaining row was older than it.
C8_RetentionConservation ==
    PassHandled =>
        \A e \in lastPass.deleted :
            e.StartedAt >= lastPass.now - retConf.RetainDays * HoursPerDay
                => (e.by = "disk" /\ e.oldest)

\* a pass whose time sweep deleted an expired row and spared the row started
\* exactly retainDays ago, which its disk sweep then took as the oldest left
C8_Witness ==
    /\ PassHandled
    /\ retConf.RetainDays > 0
    /\ \E e \in lastPass.deleted : e.by = "expired"
    /\ \E e \in lastPass.deleted :
          /\ e.by = "disk"
          /\ e.StartedAt = lastPass.now - retConf.RetainDays * HoursPerDay

(***************************************************************************)
(* Registrar claims: the sentinel password.                                *)
(***************************************************************************)
\* the REGISTER just handled is for a stored device whose password is the sentinel
SentinelRegister ==
    /\ JustHandled
    /\ ClaimConforming(req.id)
    /\ devices[req.id] # NoRow
    /\ devices[req.id].Password = ignorePassword

\* C11: when the device's password is the sentinel "#", a REGISTER with a
\* conforming id is never answered 401, whatever server password is configured,
\* with or without an Authorization header and whatever digest the header
\* carries; when the device lookup succeeds it is answered 200.
C11_SentinelNeverChallenged ==
    SentinelRegister =>
        /\ \A i \in 1..Len(trace) :
              trace[i] \notin {Resp(401, "none"), Resp(401, "WWW-Authenticate")}
        /\ req.store # "get" => trace[1] = Resp(200, "Date")

\* a server password is configured, the device's password is the sentinel, and a
\* REGISTER without Authorization is answered 200
C11_Witness ==
    /\ SentinelRegister
    /\ cfgPassword # ""
    /\ ~req.hasAuth
    /\ req.store = "ok"
    /\ trace[1] = Resp(200, "Date")

(***************************************************************************)
(* Media-server node claims.                                               *)
(***************************************************************************)
NodeMarked == smsAct = "mark"

\* C12: at a liveness tick a node whose last keepalive is less than 30s old is
\* marked online without a ping; a node whose last keepalive is 30s old or older
\* is pinged and is marked offline if and only if the ping fails, a successful
\* ping marking it online and refreshing its last-seen time; no node is marked
\* offline while its last keepalive is less than 30s old.
C12_LivenessTick ==
    NodeMarked =>
        /\ smsLast.checkAge < KeepaliveInterval => (smsLast.online /\ ~smsLast.pinged)
        /\ smsLast.checkAge >= KeepaliveInterval =>
              /\ smsLast.pinged
              /\ ~smsLast.online <=> ~smsLast.pingOk
              /\ smsLast.pingOk =>
                    /\ nodes[smsLast.server].IsOnline
                    /\ nodes[smsLast.server].LastUpdatedAt = smsNow
        /\ ~smsLast.online => smsLast.age >= KeepaliveInterval

(***************************************************************************)
(* ONVIF status claims.                                                    *)
(***************************************************************************)
OnvifChecked == onvifAct \in {"check", "quiet"}

\* no heartbeat of the cached entry e has succeeded for the timeout: its last one
\* is that old, or it has had none and has been cached that long
NoHeartbeatForTimeout(e, age) ==
    \/ e.KeepaliveAge = HeartbeatTimeout
    \/ e.KeepaliveAge = ZeroTime /\ age = HeartbeatTimeout

\* C13: after a status check every cached device without a successful heartbeat
\* during the last 70 seconds, a device that never had one since it was cached
\* included, is marked offline, and every cached device with a successful
\* heartbeat within the last 70 seconds is marked online.
C13_StaleOfflineFreshOnline ==
    OnvifChecked =>
        \A d \in OnvifDevices :
            Cached(onvifDevs[d]) =>
                /\ NoHeartbeatForTimeout(onvifDevs[d], cachedAge[d]) => ~onvifDevs[d].IsOnline
                /\ (onvifDevs[d].KeepaliveAge # ZeroTime
                      /\ onvifDevs[d].KeepaliveAge < HeartbeatTimeout) => onvifDevs[d].IsOnline

(***************************************************************************)
(* Webhook claims: playing state, stream disconnect, replies.              *)
(***************************************************************************)
StreamChangedHandled == pubAct = "on_stream_changed"
NoneReaderHandled    == pubAct = "on_stream_none_reader"
WebhookHandled ==
    pubAct \in {"on_publish", "on_stream_changed", "on_play", "on_stream_none_reader"}

\* the channel row of the stream of the last webhook, after the webhook
HookChannel == chans[pubReq.stream]

\* C14: after an on_stream_changed with regist=true for the stream of a stored
\* GB28181 channel, the channel has is_playing = true.
C14_RegisteredGbStreamIsPlaying ==
    (/\ StreamChangedHandled
     /\ pubReq.regist
     /\ GetType(pubReq.stream) = "GB28181"
     /\ HookChannel # NoChannel)
    => HookChannel.IsPlaying

Disconnected(type) ==
    /\ StreamChangedHandled
    /\ ~pubReq.regist
    /\ GetType(pubReq.stream) = type
    /\ HookChannel # NoChannel

\* C16: on_stream_changed with regist=false for the stream of a stored GB28181
\* channel first stops the recording, then marks the channel not playing and
\* issues a BYE, also when stopping the recording failed.
C16_StopRecordingThenBye ==
    Disconnected("GB28181") =>
        /\ pubResp.effects \in {<<"stop_recording", "bye">>, <<"stop_recording_failed", "bye">>}
        /\ ~HookChannel.IsPlaying

\* a call of the store, of the recorder or of an adapter failed in the last webhook
HookFailed ==
    \/ pubAct \in {"on_publish", "on_play", "on_stream_none_reader"} /\ ~pubReq.storeOk
    \/ pubAct = "on_stream_changed" /\ ~(pubReq.recOk /\ pubReq.ok1 /\ pubReq.ok2)

\* C17: a webhook whose stream has no channel in the store is answered code 0,
\* and so is every webhook in which a store, recording or adapter call failed.
C17_WebhooksAlwaysCodeZero ==
    (WebhookHandled /\ (HookChannel = NoChannel \/ HookFailed)) => pubResp.code = 0

\* C18: after an accepted on_publish the channel is online, its pushed_at is the
\* time of the accept and its session is the one of the request, whether the
\* accept is due to the sign or to IsAuthDisabled.
C18_AcceptUpdatesChannel ==
    (PublishHandled /\ pubResp.code = 0 /\ Resolved # NoChannel) =>
        /\ Resolved.IsOnline
        /\ Resolved.PushedAt = pubNow
        /\ Resolved.Session = pubReq.params.session

\* C19: a rejected on_publish changes no channel: is_online, pushed_at, session
\* and is_playing of every channel are as before the request.
C19_RejectedPublishChangesNothing ==
    [][(pubAct' = "on_publish" /\ pubResp'.code # 0) => chans' = chans]_vars

\* a publisher with a wrong sign is rejected later than the accepted first one,
\* whose online flag, pushed_at and session are still in place
C19_Witness ==
    /\ PublishHandled
    /\ pubResp.code # 0
    /\ pubReq.stream = "rtmp_a"
    /\ ~pubReq.params.malformed
    /\ pubReq.params.sign = Plain(RTMPSecret)
    /\ ~Resolved.IsAuthDisabled
    /\ Resolved.IsOnline
    /\ Resolved.Session = "s1"
    /\ Resolved.PushedAt = 0
    /\ pubNow = 1

RtspNotFoundHandled ==
    /\ pubAct = "on_stream_not_found"
    /\ GetType(pubReq.stream) = "RTSP"
    /\ pubResp.effects # <<>> \/ pubReq.err

\* the channel is the one before the hook with the key the SMS returned, online
KeyStored ==
    /\ pubReq.before # NoChannel
    /\ chans[pubReq.stream] =
          [pubReq.before EXCEPT !.IsOnline = TRUE, !.StreamKey = pubReq.key]

ProxyAdded == pubReq.before # NoChannel /\ pubResp.effects = <<"add_stream_proxy">>

\* C21 (as stated): RTSP OnStreamNotFound stores the stream key returned by the
\* SMS and sets IsOnline = true if and only if the channel was found and
\* AddStreamProxy succeeded; when the lookup or AddStreamProxy fails the
\* channel's StreamConfig and IsOnline are unchanged and an error is returned.
C21_KeyStoredIffProxyAdded ==
    RtspNotFoundHandled =>
        /\ ProxyAdded => KeyStored
        /\ ~ProxyAdded => (chans[pubReq.stream] = pubReq.before /\ pubReq.err)

\* C21 (amended): the key is stored and the channel set online if and only if the
\* channel was found, AddStreamProxy succeeded and the store accepted the edit;
\* in every other case the channel is unchanged and an error is returned.
C21_KeyStoredIffProxyAddedAndStored ==
    RtspNotFoundHandled =>
        /\ (ProxyAdded /\ pubReq.storeOk) => KeyStored
        /\ ~(ProxyAdded /\ pubReq.storeOk) =>
              (chans[pubReq.stream] = pubReq.before /\ pubReq.err)

\* an offline channel with the old key got the new key and went online
C21_Witness ==
    /\ RtspNotFoundHandled
    /\ ProxyAdded /\ pubReq.storeOk
    /\ ~pubReq.before.IsOnline /\ pubReq.before.StreamKey = OldKey
    /\ KeyStored

\* a reconciliation pass has just returned
PassDone == aiAct = "pass" /\ aiPass.phase = "done"

EnabledNow == {c \in AiChannels : aiEnabled[c]}

\* what the pass did, against the two sets it started from
Reconciled ==
    /\ aiTasks = EnabledNow
    /\ aiPass.started = aiPass.desired \ aiPass.memory
    /\ aiPass.stopped = aiPass.memory \ aiPass.desired
    /\ aiReported \cap EnabledNow = {}

PlaylistHandled == hlsAct = "playlist" /\ Len(hlsIn.recordings) > 0

LinesTagged(tag) == {i \in DOMAIN hlsOut : hlsOut[i].tag = tag}

\* the position of the k-th #EXTINF line
ExtInfAt(k) ==
    CHOOSE i \in LinesTagged("#EXTINF") :
        Cardinality({j \in LinesTagged("#EXTINF") : j < i}) = k - 1

StartOfPath == [r \in HlsRecs |-> StartedAtOf[r]]

\* the segments are listed in ascending started_at order
SegmentsAscending ==
    \A i, j \in LinesTagged("uri") :
        i < j => StartOfPath[hlsOut[i].uri.path] <= StartOfPath[hlsOut[j].uri.path]

\* a discontinuity marker stands directly before every #EXTINF but the first
MarkerBeforeAllButFirst ==
    \A k \in 1..Len(hlsIn.recordings) :
        (hlsOut[ExtInfAt(k) - 1].tag = "#EXT-X-DISCONTINUITY") <=> (k > 1)

PlaylistCounts ==
    /\ Cardinality(LinesTagged("#EXTINF")) = Len(hlsIn.recordings)
    /\ Cardinality(LinesTagged("#EXT-X-DISCONTINUITY")) = Len(hlsIn.recordings) - 1
    /\ hlsOut[Len(hlsOut)].tag = "#EXT-X-ENDLIST"

\* C23: for any non-empty list of recording segments, in any input order, the
\* playlist lists the segments in ascending started_at order, has exactly
\* len(segments) #EXTINF lines and len(segments) - 1 #EXT-X-DISCONTINUITY
\* markers, one before every segment except the first, and ends with
\* #EXT-X-ENDLIST.
C23_PlaylistStitched ==
    PlaylistHandled => (SegmentsAscending /\ PlaylistCounts /\ MarkerBeforeAllButFirst)

\* a control word has been sent for a direction command (ptzControl or ptzStop)
DirectionWordSent == ptzAct \in {"control", "stop"} /\ ptzOut.sent # NoWord

\* the direction table: the four directions, the diagonals as bitwise OR of
\* their components, the two zooms
DirectionTable ==
    [d \in 0..9 |->
        CASE d = PTZDirectionUp -> 8 [] d = PTZDirectionDown -> 4
          [] d = PTZDirectionLeft -> 2 [] d = PTZDirectionRight -> 1
          [] d = PTZDirectionUpLeft -> BitOr(8, 2) [] d = PTZDirectionUpRight -> BitOr(8, 1)
          [] d = PTZDirectionDownLeft -> BitOr(4, 2)
          [] d = PTZDirectionDownRight -> BitOr(4, 1)
          [] d = PTZDirectionZoomIn -> 16 [] OTHER -> 32]

\* C24: the PTZ control word built for a direction command has header bytes
\* 0xA5 0x0F 0x01 0x00 and a direction byte that is bit-exact per the table:
\* up=0x08, down=0x04, left=0x02, right=0x01, each diagonal the bitwise OR of
\* its two components, zoom-in=0x10, zoom-out=0x20.
C24_DirectionWordBitExact ==
    DirectionWordSent =>
        /\ SubSeq(ptzOut.sent, 1, 4) = <<165, 15, 1, 0>>
        /\ Len(ptzOut.sent) = 8
        /\ ptzReq.in.Direction \in DOMAIN DirectionTable =>
              ptzOut.sent[5] = DirectionTable[ptzReq.in.Direction]

\* a word for up-left went out, its direction byte 0x0A
C24_Witness ==
    /\ DirectionWordSent
    /\ ptzReq.in.Direction = PTZDirectionUpLeft
    /\ ptzOut.sent[5] = 10

PresetHandled == ptzAct = "preset"

ValidPreset ==
    /\ ptzReq.in.Command \in {"SetPreset", "GotoPreset", "RemovePreset"}
    /\ ptzReq.in.PresetID \in 1..255

PresetCodeOf == [c \in {"SetPreset", "GotoPreset", "RemovePreset"} |->
                    CASE c = "SetPreset" -> 129 [] c = "GotoPreset" -> 130 [] OTHER -> 131]

\* what the claim rejects: a bad command, a preset id out of range, a channel
\* that is not known, a device that is offline
PresetRejectable ==
    \/ ~ValidPreset
    \/ ptzReq.channel \notin DOMAIN PtzTypeOf
    \/ ~ptzReq.mem.loaded
    \/ ~ptzReq.mem.online

\* a rejected request: an error, no message, the device and channel as before
PresetRejected ==
    /\ ptzOut.status # "ok"
    /\ ptzOut.sent = NoWord
    /\ ptzMem = ptzReq.mem

\* C25 (as stated): a preset command is sent only when the command is one of
\* SetPreset/GotoPreset/RemovePreset and the preset id is in 1..255, and then the
\* control word carries 0x81/0x82/0x83 respectively and the preset id in the
\* following byte; a bad command, an out-of-range preset id, an unknown channel
\* or an offline device is rejected with an error, no SIP message is sent and no
\* device or channel state changes.
C25_PresetWordIdFollowsCode ==
    PresetHandled =>
        /\ ptzOut.sent # NoWord =>
              /\ ValidPreset
              /\ \E k \in 1..7 : /\ ptzOut.sent[k] = PresetCodeOf[ptzReq.in.Command]
                                 /\ ptzOut.sent[k + 1] = ptzReq.in.PresetID
        /\ PresetRejectable => PresetRejected

\* C25 (amended): the same, with the code 0x81/0x82/0x83 in the last byte of the
\* control word (byte 7) and the preset id in the byte before it (byte 6).
C25_PresetWordIdPrecedesCode ==
    PresetHandled =>
        /\ ptzOut.sent # NoWord =>
              /\ ValidPreset
              /\ ptzOut.sent = <<165, 15, 1, 0, 0, 0, ptzReq.in.PresetID,
                                 PresetCodeOf[ptzReq.in.Command]>>
        /\ PresetRejectable => PresetRejected

\* GotoPreset 255 went out to an online device
C25_Witness ==
    /\ PresetHandled
    /\ ptzReq.in.Command = "GotoPreset" /\ ptzReq.in.PresetID = 255
    /\ ptzOut.sent = <<165, 15, 1, 0, 0, 0, 255, 130>>

\* a preset request for an offline device was rejected
C25_WitnessRejected ==
    /\ PresetHandled /\ ValidPreset
    /\ ptzReq.mem.loaded /\ ~ptzReq.mem.online
    /\ PresetRejected

DelHandled == delAct = "del"

ChannelsOf(rows, dev) == {r \in rows : r[1] = dev}

C26_WitnessFailed ==
    /\ DelHandled /\ delLast.outcome = "fail_channels"
    /\ ChannelsOf(delChans, delLast.dev) # {}
    /\ delLast.dev \in delDevs /\ delLast.dev \in delCached

(***************************************************************************)
(* Device delete and catalog merge claims.                                 *)
(***************************************************************************)
\* a merge one of whose store operations failed
MergeFailed == EmitHandled /\ Len(lastEmit.list) > 0 /\ lastEmit.failAt # 0

\* C27: the incremental channel merge is atomic: its steps are applied in one
\* transaction, so if any step fails none of the steps' effects is visible in
\* the store: the channel table and the device rows are as before the merge.
C27_MergeAtomic ==
    MergeFailed => (chanRows = lastEmit.before /\ devRows = lastEmit.devsBefore)

RetainPassHandled == PassHandled /\ retConf.RetainDays > 0

\* now + 1h - retainDays, at the pass
MarkCutoff == lastPass.now + 1 - retConf.RetainDays * HoursPerDay

\* C29: after a retention pass with retainDays > 0, every recording row that
\* remains and has started_at < now + 1h - retainDays has delete_flag = true,
\* and the predictive mark sets delete_flag on no row with started_at at or
\* after that cutoff.
C29_PredictiveMark ==
    RetainPassHandled =>
        /\ \A r \in Present(recs) : recs[r].StartedAt < MarkCutoff => recs[r].DeleteFlag
        /\ \A r \in Present(lastPass.before) :
              lastPass.before[r].StartedAt >= MarkCutoff =>
                  lastPass.marked[r].DeleteFlag = lastPass.before[r].DeleteFlag

\* a row inside the last hour of its retention was flagged and kept, next to a
\* row exactly at the cutoff that the mark left alone
C29_Witness ==
    /\ RetainPassHandled
    /\ \E r \in Present(recs) :
          /\ recs[r].StartedAt < MarkCutoff
          /\ ~lastPass.before[r].DeleteFlag
          /\ recs[r].DeleteFlag
    /\ \E r \in Present(lastPass.before) :
          /\ lastPass.before[r].StartedAt = MarkCutoff
          /\ ~lastPass.marked[r].DeleteFlag

\* the rows the disk sweep of the last pass deleted
DiskDeleted == {e \in lastPass.deleted : e.by = "disk"}

\* max(sum of the sizes of the rows created in the last hour, 100 MiB), over the
\* table the disk sweep found
TargetBytes ==
    LET recent == SumSize(lastPass.swept,
                          {r \in Present(lastPass.swept) :
                              lastPass.swept[r].CreatedAt >= lastPass.now - 1})
    IN  IF recent < MinTarget THEN MinTarget ELSE recent

UsageBelowThreshold ==
    lastPass.usage # UsageError /\ lastPass.usage < retConf.DiskUsageThreshold

\* nothing is deleted below the threshold, and what is deleted are the oldest rows
SweepOldestFirst ==
    /\ UsageBelowThreshold => DiskDeleted = {}
    /\ \A e \in DiskDeleted : e.oldest
    /\ \A e, f \in DiskDeleted : e.batch < f.batch => e.StartedAt <= f.StartedAt

\* C30: the disk sweep deletes rows in ascending started_at order and stops at
\* the first of freed >= targetBytes or usage < threshold: it deletes no row
\* once either holds, and nothing when usage is below the threshold at the start.
C30_SweepStopsAtRow ==
    PassHandled =>
        /\ SweepOldestFirst
        /\ \A e \in DiskDeleted :
              /\ e.freedBefore < TargetBytes
              /\ ~e.afterDrop

\* C30 amended: the two conditions are tested between batches of up to
\* DiskBatchSize rows: every deleted row is in a batch of the oldest rows that
\* began with freed < targetBytes and before a usage below the threshold was read.
C30_SweepStopsAtBatch ==
    PassHandled =>
        /\ SweepOldestFirst
        /\ \A e \in DiskDeleted :
              /\ e.freedAtBatch < TargetBytes
              /\ ~e.afterDrop
              /\ Cardinality({f \in DiskDeleted : f.batch = e.batch}) <= DiskBatchSize

\* a sweep that took a second batch because the first freed less than the
\* target and left the usage at or above the threshold
C30_Witness ==
    /\ PassHandled
    /\ \E e \in DiskDeleted : e.batch = 1
    /\ \E e \in DiskDeleted : e.batch = 2 /\ e.freedAtBatch > 0

\* a sweep that stopped on the target with rows left
C30_WitnessStopped ==
    /\ PassHandled
    /\ DiskDeleted # {}
    /\ Present(recs) # {}

(***************************************************************************)
(* Cleanup loop claims.                                                    *)
(***************************************************************************)
\* C31: every retention or event-cleanup pass terminates: the batch loops
\* finish after finitely many iterations for every finite table, also when the
\* batch delete of a fetched page fails on every attempt and when files cannot
\* be removed.
C31_PassTerminates == (swPhase = "running") ~> (swPhase = "done")

\* C32: a recording row is removed by the retention worker only if its file was
\* removed or did not exist: after a pass no file is still on disk whose row
\* the pass deleted.
C32_RowGoesOnlyWithFile ==
    PassHandled => \A e \in lastPass.deleted : files[e.id] = "missing"

(***************************************************************************)
(* Media-server node claims, continued.                                    *)
(***************************************************************************)
\* NodeManager.IsOnline
IsOnline(serverID) == nodes[serverID] # NoEntry /\ nodes[serverID].IsOnline

\* C33: a media-server node whose Connect failed, and from which no keepalive
\* and no successful Ping has ever been received, is never reported online.
C33_NeverHeardNeverOnline ==
    \A s \in SmsServers : (s \notin smsConnected /\ s \notin smsHeard) => ~IsOnline(s)

(***************************************************************************)
(* Catalog claims, continued.                                              *)
(***************************************************************************)
\* the collector emitted an empty list
EmptyEmitHandled == EmitHandled /\ Len(lastEmit.list) = 0

\* C34: a catalog report with zero channels is a no-op: when the collector
\* emits an empty list, or SaveChannels is called with an empty list, no channel
\* row and no device row changes.
C34_EmptyReportIsNoOp ==
    /\ EmptyEmitHandled => (chanRows = lastEmit.before /\ devRows = lastEmit.devsBefore)
    /\ \A failAt \in 0..4 :
          SaveChannels(chanRows, devRows, <<>>, failAt) = [rows |-> chanRows, devs |-> devRows]

\* an empty list was emitted for a device with an online channel and a count
C34_Witness ==
    /\ EmptyEmitHandled
    /\ devRows[lastEmit.device].Channels > 0
    /\ \E i \in DOMAIN chanRows :
          chanRows[i].DeviceID = lastEmit.device /\ chanRows[i].IsOnline

StopWordSent == ptzAct = "stop" /\ ptzOut.sent # NoWord

\* C36: the PTZ stop operation sends a control word whose direction byte is
\* 0x00 and whose horizontal-speed, vertical-speed and zoom bytes are all 0.
C36_StopWordCommandsNothing ==
    StopWordSent =>
        /\ ptzOut.sent[5] = 0
        /\ ptzOut.sent[6] = 0 /\ ptzOut.sent[7] = 0 /\ ptzOut.sent[8] = 0

\* the 14 defined directions
DefinedDirections == PTZDirectionUp..PTZDirectionIrisClose

\* C37: PTZControl is injective on directions: for fixed speed inputs, any two
\* distinct directions among the 14 defined ones produce different control words.
C37_DirectionsInjective ==
    (ptzAct = "control" /\ ptzOut.sent # NoWord) =>
        \A d \in DefinedDirections \ {ptzReq.in.Direction} :
            ControlWord([ptzReq.in EXCEPT !.Direction = d]) # ptzOut.sent

(***************************************************************************)
(* Login key claims.                                                       *)
(***************************************************************************)
\* C38: under any interleaving of GetOrCreatePublicKey and Decrypt calls, a
\* public key returned by GetOrCreatePublicKey corresponds to the private key
\* that Decrypt uses until that key's expiry.
C38_HeldKeyDecryptsUntilExpiry ==
    /\ \A p \in KeyCallers :
          (keyPc[p] = "idle" /\ keyHeld[p] # NoKey /\ keyHeld[p] \notin keyExpired)
              => keyHeld[p] = keyCur
    /\ (keyAct = "decrypt" /\ keyDec.held \notin keyExpired) => keyDec.ok

(***************************************************************************)
(* Migration claims.                                                       *)
(***************************************************************************)
\* a run after a run over the same legacy tables has completed
MigratedAgain == migAct = "migrate" /\ migLast.again

\* no two channels share an (app, stream) pair
UniqueAppStream ==
    \A a, b \in migChannels : (a.App = b.App /\ a.Stream = b.Stream) => a = b

\* C39: the legacy stream migration is idempotent and non-overwriting: a second
\* run over the same legacy tables adds no device row and no channel row and
\* modifies no channel, and no two channels ever share an (app, stream) pair.
C39_MigrationIdempotent ==
    /\ MigratedAgain => (migDevices = migLast.devices /\ migChannels = migLast.channels)
    /\ UniqueAppStream

(***************************************************************************)
(* Frame capture claims.                                                   *)
(***************************************************************************)
\* the loop holds a frame that is counted and not yet handed over or skipped
FrameInHand == fcPc \in {"onframe", "select"}

\* the select of a loop that holds a frame can always take a case
NeverBlocksOnFrameCh ==
    fcPc = "select" => SelectCases(Len(fcFrameCh), fcCancelled) # {}

\* FrameCh is closed once, by the loop that exits
ClosedOnceOnExit == fcClosed = IF fcPc = "exited" THEN 1 ELSE 0

\* C40 as stated: while the capture context is not cancelled frameCount =
\* delivered frames + skipCount, the capture loop never blocks on a full frame
\* channel, and it closes the frame channel exactly once, when it exits.
C40_CountersBalance ==
    /\ ~fcCancelled => fcFrameCount = fcDelivered + fcSkipCount
    /\ NeverBlocksOnFrameCh
    /\ ClosedOnceOnExit

\* C40 amended: while the capture context is not cancelled, every frame whose
\* loop iteration has finished was delivered on the frame channel or counted in
\* skipCount, so frameCount = delivered frames + skipCount whenever the loop
\* holds no frame, and one more while it holds one (during the OnFrame callback
\* and up to the select); the loop never blocks on a full frame channel and
\* closes the frame channel exactly once, when it exits.
C40_CountersBalanceBetweenFrames ==
    /\ ~fcCancelled =>
           fcFrameCount = fcDelivered + fcSkipCount + (IF FrameInHand THEN 1 ELSE 0)
    /\ NeverBlocksOnFrameCh
    /\ ClosedOnceOnExit

\* a frame was skipped on a full channel and others were delivered, the context
\* is not cancelled and the loop is about to read the next frame
C40_Witness ==
    /\ ~fcCancelled
    /\ fcPc = "top"
    /\ fcAct = "default"
    /\ Len(fcFrameCh) = FrameChCap
    /\ fcSkipCount > 0
    /\ fcDelivered > 0

\* the loop has exited on a read error after delivering and skipping frames
C40_WitnessClosed ==
    /\ ~fcCancelled
    /\ fcPc = "exited"
    /\ fcClosed = 1
    /\ fcSkipCount > 0

====
